---- MODULE Spec2Model ----
(***************************************************************************)
(* The function-wrapping (decorator) constructs of the tutorial scripts,    *)
(* as a small-step machine over Python's call stack:                        *)
(*   demo/functions.py   my_decorator, add, multiply                        *)
(*   demo/functions2.py  outer_decorator, wrapper_bounds, logger, ...       *)
(*   labs/ex1.py         announce, multiply_all                             *)
(*   lance/ex1.py        multiply_all                                       *)
(* A function object lives on the heap; a closure holds the value its free  *)
(* variable had when it was built.  Each statement of a wrapper body is one  *)
(* action; a call pushes a frame, a return pops it, an exception unwinds     *)
(* one frame at a time.                                                      *)
(***************************************************************************)
EXTENDS Integers, Sequences, FiniteSets

VARIABLES
    heap,     \* the objects: functions, closures, Coordinate instances
    globals,  \* the module's name bindings
    stack,    \* per thread, the call stack; its bottom frame is the module's
    trace     \* per thread, the record of its current call statement:
              \* function entries, prints and exits, in order

vars == <<heap, globals, stack, trace>>

----------------------------------------------------------------------------
(* Bounds of the model *)

\* wrapper constructions per run
MaxWrappers == 2
\* longest positional argument list the module passes
MaxArgs == 2
\* the interpreter's recursion limit, in frames below the module's
MaxDepth == 4
\* longest argument list given to multiply / multiply_all
MaxNums == 3
\* coordinates are drawn from -MaxCoord..MaxCoord, besides the scripts' own
MaxCoord == 1
\* is_even is given the integers -MaxInt..MaxInt
MaxInt == 12
\* longest list given to filter, besides the scripts' own lists
MaxList == 3
\* a table read from a file has up to MaxRows rows and 1..MaxCols columns
MaxRows == 2
MaxCols == 2
\* the threads of the model: the script's own, and one more caller
AllThreads == {"main", "worker"}

----------------------------------------------------------------------------
(* Values *)

IntV(n) == [t |-> "int", v |-> n, w |-> 0]
NoneV == [t |-> "none", v |-> 0, w |-> 0]
\* a reference to the heap object at address i
Ref(i) == [t |-> "ref", v |-> i, w |-> 0]
\* what print shows for a Coordinate: its __dict__ (functions2.py __repr__)
CoordRepr(x, y) == [t |-> "coord", v |-> x, w |-> y]
\* marks a parameter that has no default
Missing == [t |-> "missing", v |-> 0, w |-> 0]

\* True and False
BoolV(b) == [t |-> "bool", v |-> IF b THEN 1 ELSE 0, w |-> 0]

\* the string literals of the scripts; a string value holds its place here
Strings ==
    << "This is a global variable", "test", "Hello", "customers.csv", "product.csv",
       "orderheader.csv", "orderdetails.csv" >>
StrV(s) == [t |-> "str", v |-> CHOOSE i \in DOMAIN Strings : Strings[i] = s, w |-> 0]

DefObj(name) == [k |-> "def", name |-> name, func |-> NoneV, x |-> 0, y |-> 0]
ClosureObj(dec, f) == [k |-> "closure", name |-> dec, func |-> f, x |-> 0, y |-> 0]
Coordinate(x, y) == [k |-> "coord", name |-> "", func |-> NoneV, x |-> x, y |-> y]

\* a list object and its items
ListObj(items) ==
    [k |-> "list", name |-> "", func |-> NoneV, x |-> 0, y |-> 0, items |-> items]

\* a DataFrame of the given shape
TableObj(rows, cols) == [k |-> "table", name |-> "", func |-> NoneV, x |-> rows, y |-> cols]

\* The module-level objects the scripts define before any decoration.
BaseHeap ==
    << DefObj("add"), DefObj("foo1"), DefObj("foo_decor"), DefObj("say_hello"),
       DefObj("add_checked"), DefObj("sub_checked"),
       DefObj("multiply"), DefObj("multiply_all_labs"), DefObj("multiply_all_lance"),
       DefObj("is_even_labs"), DefObj("is_even_lance"),
       DefObj("filter"), DefObj("lambda_x"), DefObj("outer_function"), DefObj("foo2"),
       DefObj("foo_resolution"), DefObj("foo_assignment"),
       DefObj("add_numbers_strict"), DefObj("load_dataset"),
       Coordinate(100, 200), Coordinate(300, 200), Coordinate(0 - 100, 0 - 100) >>

Addr(name) == CHOOSE i \in DOMAIN BaseHeap : BaseHeap[i].name = name
one == Len(BaseHeap) - 2
two == Len(BaseHeap) - 1
three == Len(BaseHeap)

IsRef(val) == val.t = "ref"
IsInt(val) == val.t = "int"
IsFunction(h, val) == IsRef(val) /\ h[val.v].k \in {"def", "closure"}
IsList(h, val) == IsRef(val) /\ h[val.v].k = "list"
IsCoord(h, val) == IsRef(val) /\ h[val.v].k = "coord"

\* The code object a function value runs: a def's own name, or the inner
\* function of the decorator that built the closure.
CodeOf(h, val) == h[val.v].name

\* func.__name__ exists on functions only
HasName(h, val) == IsFunction(h, val)

Max(p, q) == IF p >= q THEN p ELSE q

----------------------------------------------------------------------------
(* Frames and the trace *)

Frame(code, self, pc, args, kwargs, a, b) ==
    [code |-> code, self |-> self, pc |-> pc, args |-> args, kwargs |-> kwargs,
     a |-> a, b |-> b, ret |-> NoneV, i |-> 0, acc |-> <<>>, exc |-> ""]

ModuleFrame == Frame("module", 0, "idle", <<>>, {}, NoneV, NoneV)

Top(s) == s[Len(s)]
Pop(s) == SubSeq(s, 1, Len(s) - 1)
SetTop(s, f) == [s EXCEPT ![Len(s)] = f]

Event(th, e, d, self, what, args, kwargs, val, kind) ==
    [th |-> th, e |-> e, d |-> d, self |-> self, what |-> what,
     args |-> args, kwargs |-> kwargs, val |-> val, kind |-> kind]

\* print(...) executed by the frame on top of s
PrintEv(th, s, what, args, kwargs) ==
    Event(th, "print", Len(s), Top(s).self, what, args, kwargs, NoneV, "")

----------------------------------------------------------------------------
(* Python's argument binding for the def signatures of the scripts *)

\* codes declared with (*args, **kwargs): they accept every call
Variadic == {"my_decorator", "announce", "logger"}
\* codes declared with (*args) alone
VarPositional == {"multiply", "multiply_all_labs", "multiply_all_lance"}

Params(code) ==
    CASE code \in {"add", "foo1"} -> <<"x", "y">>
      [] code = "say_hello" -> <<"name">>
      [] code \in {"is_even_labs", "is_even_lance"} -> <<"n">>
      [] code = "filter" -> <<"function", "iterable">>
      [] code = "lambda_x" -> <<"x">>
      [] code \in {"add_checked", "sub_checked", "wrapper_bounds"} -> <<"a", "b">>
      [] code = "add_numbers_strict" -> <<"a", "b">>
      [] code = "load_dataset" -> <<"filename">>
      [] OTHER -> <<>>

Default(code, i) == IF code = "foo1" /\ i = 2 THEN IntV(1) ELSE Missing

KwNames(kwargs) == {p[1] : p \in kwargs}
KwVal(kwargs, n) == (CHOOSE p \in kwargs : p[1] = n)[2]

ParamVal(code, args, kwargs, i) ==
    IF i <= Len(args) THEN args[i]
    ELSE IF Params(code)[i] \in KwNames(kwargs) THEN KwVal(kwargs, Params(code)[i])
    ELSE Default(code, i)

BindOK(code, args, kwargs) ==
    IF code \in Variadic THEN TRUE
    ELSE IF code \in VarPositional THEN kwargs = {}
    ELSE /\ Len(args) <= Len(Params(code))
         /\ \A n \in KwNames(kwargs) :
                \E i \in DOMAIN Params(code) : Params(code)[i] = n /\ i > Len(args)
         /\ \A i \in DOMAIN Params(code) : ParamVal(code, args, kwargs, i) # Missing

\* the first and second parameter as the callee's locals
Local(code, args, kwargs, i) ==
    IF code \in Variadic \cup VarPositional \/ i > Len(Params(code)) THEN NoneV
    ELSE ParamVal(code, args, kwargs, i)

FirstPc(code) ==
    CASE code \in {"my_decorator", "announce", "logger", "outer_decorator"} -> "pre"
      [] code = "wrapper_bounds" -> "clampA"
      [] code \in VarPositional -> "init"
      [] code = "filter" -> "loop"
      [] OTHER -> "body"

----------------------------------------------------------------------------
(* Calls, returns and exceptions *)

Raise(s, kind) == SetTop(s, [Top(s) EXCEPT !.exc = kind])

\* The frame on top of s calls `callee` and will resume at pc `resume`.
\* Calling a non-function, exceeding the recursion limit or failing to bind
\* the arguments raises in the caller; otherwise the callee's frame is pushed.
Invoke(h, s, th, callee, args, kwargs, resume) ==
    LET caller == SetTop(s, [Top(s) EXCEPT !.pc = resume]) IN
    IF ~IsFunction(h, callee)
    THEN [s |-> Raise(caller, "TypeError"), tr |-> <<>>]
    ELSE IF Len(s) > MaxDepth
    THEN [s |-> Raise(caller, "RecursionError"), tr |-> <<>>]
    ELSE IF ~BindOK(CodeOf(h, callee), args, kwargs)
    THEN [s |-> Raise(caller, "TypeError"), tr |-> <<>>]
    ELSE LET code == CodeOf(h, callee) IN
         [s |-> Append(caller,
                       Frame(code, callee.v, FirstPc(code), args, kwargs,
                             Local(code, args, kwargs, 1), Local(code, args, kwargs, 2))),
          tr |-> << Event(th, "enter", Len(s) + 1, callee.v, "", args, kwargs, NoneV, "") >>]

\* `return val` in the frame on top of s: the caller's pending call yields val
Return(s, val) ==
    LET rest == Pop(s) IN SetTop(rest, [Top(rest) EXCEPT !.ret = val])

ReturnEv(th, s, val) ==
    Event(th, "return", Len(s), Top(s).self, "", <<>>, {}, val, "")

\* the frame of `code` on top of t's stack is about to run statement `pc`
At(t, code, pc) ==
    /\ Len(stack[t]) > 0
    /\ Top(stack[t]).code = code
    /\ Top(stack[t]).pc = pc
    /\ Top(stack[t]).exc = ""

\* the wrappers with "try: ... except Exception: return None" around the call
\* of the target
UnwindSwallow(t) ==
    /\ Len(stack[t]) > 1
    /\ Top(stack[t]).exc # ""
    /\ LET rest == Pop(stack[t]) IN
       stack' = [stack EXCEPT ![t] =
           IF Len(rest) > 1 /\ heap[Top(rest).self].k = "closure"
           THEN SetTop(rest, [Top(rest) EXCEPT !.ret = NoneV, !.pc = "return"])
           ELSE Raise(rest, Top(stack[t]).exc)]
    /\ trace' = [trace EXCEPT ![t] =
           Append(@, Event(t, "raise", Len(stack[t]), Top(stack[t]).self, "",
                           <<>>, {}, NoneV, Top(stack[t]).exc))]
    /\ UNCHANGED <<heap, globals>>

\* No function of the scripts has a try/except around a call: an exception
\* leaves the frame it reaches and is raised again in the caller.
Unwind(t) ==
    /\ Len(stack[t]) > 1
    /\ Top(stack[t]).exc # ""
    /\ stack' = [stack EXCEPT ![t] = Raise(Pop(stack[t]), Top(stack[t]).exc)]
    /\ trace' = [trace EXCEPT ![t] =
           Append(@, Event(t, "raise", Len(stack[t]), Top(stack[t]).self, "",
                           <<>>, {}, NoneV, Top(stack[t]).exc))]
    /\ UNCHANGED <<heap, globals>>

\* one statement of thread t: its stack becomes s2 and its trace grows by tr2
Step(t, s2, tr2) ==
    /\ stack' = [stack EXCEPT ![t] = s2]
    /\ trace' = [trace EXCEPT ![t] = @ \o tr2]
    /\ UNCHANGED <<heap, globals>>

\* a statement that also allocates obj; the new object's address is Len(heap) + 1
StepNew(t, s2, tr2, obj) ==
    /\ stack' = [stack EXCEPT ![t] = s2]
    /\ trace' = [trace EXCEPT ![t] = @ \o tr2]
    /\ heap' = Append(heap, obj)
    /\ UNCHANGED globals

\* a wrapper body that names the global f where it should name its own
\* free variable: the target is looked up when the wrapper runs
CapturedLate(t) == globals.f

\* the free variable of the closure running on top of t's stack: the value
\* the decorator's parameter had when the closure was built
Captured(t) == heap[Top(stack[t]).self].func

----------------------------------------------------------------------------
(* demo/functions.py: my_decorator *)

\* my_decorator with a check of its argument before it builds the wrapper
my_decorator_checked(func) ==
    IF IsFunction(heap, func)
    THEN [exc |-> "", obj |-> ClosureObj("my_decorator", func)]
    ELSE [exc |-> "TypeError", obj |-> ClosureObj("my_decorator", func)]

\* def my_decorator(func): def wrapper(...): ...; return wrapper
my_decorator(func) == [exc |-> "", obj |-> ClosureObj("my_decorator", func)]

\* print(f"Calling function '{func.__name__}'")
my_decorator_pre(t) ==
    /\ At(t, "my_decorator", "pre")
    /\ LET s == stack[t] IN
       IF HasName(heap, Captured(t))
       THEN Step(t, SetTop(s, [Top(s) EXCEPT !.pc = "call"]),
                 << PrintEv(t, s, "Calling function", <<>>, {}) >>)
       ELSE Step(t, Raise(s, "AttributeError"), <<>>)

\* my_decorator's wrapper calling func(*args), the named arguments left out
my_decorator_call_no_kwargs(t) ==
    /\ At(t, "my_decorator", "call")
    /\ LET s == stack[t]
           r == Invoke(heap, s, t, Captured(t), Top(s).args, {}, "post")
       IN Step(t, r.s, r.tr)

\* result = func(*args, **kwargs)
my_decorator_call(t) ==
    /\ At(t, "my_decorator", "call")
    /\ LET s == stack[t]
           r == Invoke(heap, s, t, Captured(t), Top(s).args, Top(s).kwargs, "post")
       IN Step(t, r.s, r.tr)

\* my_decorator's wrapper without its second print
my_decorator_post_silent(t) ==
    /\ At(t, "my_decorator", "post")
    /\ Step(t, SetTop(stack[t], [Top(stack[t]) EXCEPT !.pc = "return"]), <<>>)

\* print(f"Finished calling '{func.__name__}'")
my_decorator_post(t) ==
    /\ At(t, "my_decorator", "post")
    /\ LET s == stack[t] IN
       IF HasName(heap, Captured(t))
       THEN Step(t, SetTop(s, [Top(s) EXCEPT !.pc = "return"]),
                 << PrintEv(t, s, "Finished calling", <<>>, {}) >>)
       ELSE Step(t, Raise(s, "AttributeError"), <<>>)

\* return result
my_decorator_return(t) ==
    /\ At(t, "my_decorator", "return")
    /\ LET s == stack[t] IN Step(t, Return(s, Top(s).ret), << ReturnEv(t, s, Top(s).ret) >>)

----------------------------------------------------------------------------
(* labs/ex1.py: announce *)

announce(func) == [exc |-> "", obj |-> ClosureObj("announce", func)]

\* print(f"About to run {func.__name__}...")
announce_pre(t) ==
    /\ At(t, "announce", "pre")
    /\ LET s == stack[t] IN
       IF HasName(heap, Captured(t))
       THEN Step(t, SetTop(s, [Top(s) EXCEPT !.pc = "call"]),
                 << PrintEv(t, s, "About to run", <<>>, {}) >>)
       ELSE Step(t, Raise(s, "AttributeError"), <<>>)

\* announce's wrapper with its last two statements swapped: "Done running"
\* is printed before func is called
announce_call_post_first(t) ==
    /\ At(t, "announce", "call")
    /\ LET s == stack[t]
           r == Invoke(heap, s, t, Captured(t), Top(s).args, Top(s).kwargs, "return")
       IN Step(t, r.s, << PrintEv(t, s, "Done running", <<>>, {}) >> \o r.tr)

\* result = func(*args, **kwargs)
announce_call(t) ==
    /\ At(t, "announce", "call")
    /\ LET s == stack[t]
           r == Invoke(heap, s, t, Captured(t), Top(s).args, Top(s).kwargs, "post")
       IN Step(t, r.s, r.tr)

\* print(f"Done running {func.__name__}.")
announce_post(t) ==
    /\ At(t, "announce", "post")
    /\ LET s == stack[t] IN
       IF HasName(heap, Captured(t))
       THEN Step(t, SetTop(s, [Top(s) EXCEPT !.pc = "return"]),
                 << PrintEv(t, s, "Done running", <<>>, {}) >>)
       ELSE Step(t, Raise(s, "AttributeError"), <<>>)

\* return result
announce_return(t) ==
    /\ At(t, "announce", "return")
    /\ LET s == stack[t] IN Step(t, Return(s, Top(s).ret), << ReturnEv(t, s, Top(s).ret) >>)

----------------------------------------------------------------------------
(* demo/functions2.py: logger *)

logger(func) == [exc |-> "", obj |-> ClosureObj("logger", func)]

\* logger's inner printing the arguments as the target will see them, the
\* default of foo1's y filled in
logger_pre_with_defaults(t) ==
    /\ At(t, "logger", "pre")
    /\ LET s == stack[t]
           shown == IF Captured(t) = Ref(Addr("foo1")) /\ Len(Top(s).args) = 1
                       /\ Top(s).kwargs = {}
                    THEN Append(Top(s).args, Default("foo1", 2)) ELSE Top(s).args
       IN Step(t, SetTop(s, [Top(s) EXCEPT !.pc = "call"]),
               << PrintEv(t, s, "Arguments were", shown, Top(s).kwargs) >>)

\* print(f"Arguments were: {args}, {kwargs}")
logger_pre(t) ==
    /\ At(t, "logger", "pre")
    /\ LET s == stack[t] IN
       Step(t, SetTop(s, [Top(s) EXCEPT !.pc = "call"]),
            << PrintEv(t, s, "Arguments were", Top(s).args, Top(s).kwargs) >>)

\* logger's inner passing on arguments kept in one slot per wrapper, which
\* holds the arguments of any of the invocations of the wrapper in progress
logger_call_shared_args(t) ==
    /\ At(t, "logger", "call")
    /\ \E u \in AllThreads : \E d \in 1..Len(stack[u]) :
           /\ stack[u][d].self = Top(stack[t]).self
           /\ LET s == stack[t]
                  r == Invoke(heap, s, t, Captured(t), stack[u][d].args,
                              stack[u][d].kwargs, "return")
              IN Step(t, r.s, r.tr)

\* return func(*args, **kwargs): the call
logger_call(t) ==
    /\ At(t, "logger", "call")
    /\ LET s == stack[t]
           r == Invoke(heap, s, t, Captured(t), Top(s).args, Top(s).kwargs, "return")
       IN Step(t, r.s, r.tr)

\* logger's inner without the return keyword: it falls off its end
logger_return_none(t) ==
    /\ At(t, "logger", "return")
    /\ LET s == stack[t] IN Step(t, Return(s, NoneV), << ReturnEv(t, s, NoneV) >>)

\* return func(*args, **kwargs): the return of the call's value
logger_return(t) ==
    /\ At(t, "logger", "return")
    /\ LET s == stack[t] IN Step(t, Return(s, Top(s).ret), << ReturnEv(t, s, Top(s).ret) >>)

----------------------------------------------------------------------------
(* demo/functions2.py: outer_decorator *)

outer_decorator(some_func) == [exc |-> "", obj |-> ClosureObj("outer_decorator", some_func)]

\* print("before some_func")
outer_decorator_pre(t) ==
    /\ At(t, "outer_decorator", "pre")
    /\ LET s == stack[t] IN
       Step(t, SetTop(s, [Top(s) EXCEPT !.pc = "call"]),
            << PrintEv(t, s, "before some_func", <<>>, {}) >>)

\* ret = some_func()
outer_decorator_call(t) ==
    /\ At(t, "outer_decorator", "call")
    /\ LET s == stack[t]
           r == Invoke(heap, s, t, Captured(t), <<>>, {}, "post")
       IN Step(t, r.s, r.tr)

\* inner returning ret as it is
outer_decorator_return_plain(t) ==
    /\ At(t, "outer_decorator", "post")
    /\ LET s == stack[t]
           ret == Top(s).ret
       IN IF IsInt(ret)
          THEN Step(t, Return(s, ret), << ReturnEv(t, s, ret) >>)
          ELSE Step(t, Raise(s, "TypeError"), <<>>)

\* return ret + 1
outer_decorator_return(t) ==
    /\ At(t, "outer_decorator", "post")
    /\ LET s == stack[t]
           ret == Top(s).ret
       IN IF IsInt(ret)
          THEN Step(t, Return(s, IntV(ret.v + 1)), << ReturnEv(t, s, IntV(ret.v + 1)) >>)
          ELSE Step(t, Raise(s, "TypeError"), <<>>)

----------------------------------------------------------------------------
(* demo/functions2.py: wrapper_bounds and the coordinate functions *)

wrapper_bounds(func) == [exc |-> "", obj |-> ClosureObj("wrapper_bounds", func)]

\* the wrapper clamping its first argument by assigning to the object's fields
wrapper_bounds_clampA_in_place(t) ==
    /\ At(t, "wrapper_bounds", "clampA")
    /\ LET s == stack[t]
           a == Top(s).a
       IN IF ~IsCoord(heap, a) THEN Step(t, Raise(s, "AttributeError"), <<>>)
          ELSE /\ stack' = [stack EXCEPT ![t] = SetTop(s, [Top(s) EXCEPT !.pc = "clampB"])]
               /\ heap' = [heap EXCEPT ![a.v] =
                              Coordinate(Max(heap[a.v].x, 0), Max(heap[a.v].y, 0))]
               /\ UNCHANGED <<globals, trace>>

\* if a.x < 0 or a.y < 0: a = Coordinate(max(a.x, 0), max(a.y, 0))
wrapper_bounds_clampA(t) ==
    /\ At(t, "wrapper_bounds", "clampA")
    /\ LET s == stack[t]
           a == Top(s).a
       IN IF ~IsCoord(heap, a) THEN Step(t, Raise(s, "AttributeError"), <<>>)
          ELSE IF heap[a.v].x < 0 \/ heap[a.v].y < 0
          THEN StepNew(t, SetTop(s, [Top(s) EXCEPT !.a = Ref(Len(heap) + 1), !.pc = "clampB"]),
                       <<>>, Coordinate(Max(heap[a.v].x, 0), Max(heap[a.v].y, 0)))
          ELSE Step(t, SetTop(s, [Top(s) EXCEPT !.pc = "clampB"]), <<>>)

\* the wrapper without the clamping of its second argument
wrapper_bounds_clampB_skipped(t) ==
    /\ At(t, "wrapper_bounds", "clampB")
    /\ LET s == stack[t]
           b == Top(s).b
       IN IF ~IsCoord(heap, b) THEN Step(t, Raise(s, "AttributeError"), <<>>)
          ELSE Step(t, SetTop(s, [Top(s) EXCEPT !.pc = "call"]), <<>>)

\* if b.x < 0 or b.y < 0: b = Coordinate(max(b.x, 0), max(b.y, 0))
wrapper_bounds_clampB(t) ==
    /\ At(t, "wrapper_bounds", "clampB")
    /\ LET s == stack[t]
           b == Top(s).b
       IN IF ~IsCoord(heap, b) THEN Step(t, Raise(s, "AttributeError"), <<>>)
          ELSE IF heap[b.v].x < 0 \/ heap[b.v].y < 0
          THEN StepNew(t, SetTop(s, [Top(s) EXCEPT !.b = Ref(Len(heap) + 1), !.pc = "call"]),
                       <<>>, Coordinate(Max(heap[b.v].x, 0), Max(heap[b.v].y, 0)))
          ELSE Step(t, SetTop(s, [Top(s) EXCEPT !.pc = "call"]), <<>>)

\* checker handing the target the arguments it was called with
wrapper_bounds_call_unclamped(t) ==
    /\ At(t, "wrapper_bounds", "call")
    /\ LET s == stack[t]
           r == Invoke(heap, s, t, Captured(t), Top(s).args, {}, "clampRet")
       IN Step(t, r.s, r.tr)

\* ret = func(a, b)
wrapper_bounds_call(t) ==
    /\ At(t, "wrapper_bounds", "call")
    /\ LET s == stack[t]
           r == Invoke(heap, s, t, Captured(t), <<Top(s).a, Top(s).b>>, {}, "clampRet")
       IN Step(t, r.s, r.tr)

\* the wrapper without the clamping of what the target returned
wrapper_bounds_clampRet_skipped(t) ==
    /\ At(t, "wrapper_bounds", "clampRet")
    /\ LET s == stack[t]
           ret == Top(s).ret
       IN IF ~IsCoord(heap, ret) THEN Step(t, Raise(s, "AttributeError"), <<>>)
          ELSE Step(t, SetTop(s, [Top(s) EXCEPT !.pc = "return"]), <<>>)

\* if ret.x < 0 or ret.y < 0: ret = Coordinate(max(ret.x, 0), max(ret.y, 0))
wrapper_bounds_clampRet(t) ==
    /\ At(t, "wrapper_bounds", "clampRet")
    /\ LET s == stack[t]
           ret == Top(s).ret
       IN IF ~IsCoord(heap, ret) THEN Step(t, Raise(s, "AttributeError"), <<>>)
          ELSE IF heap[ret.v].x < 0 \/ heap[ret.v].y < 0
          THEN StepNew(t, SetTop(s, [Top(s) EXCEPT !.ret = Ref(Len(heap) + 1), !.pc = "return"]),
                       <<>>, Coordinate(Max(heap[ret.v].x, 0), Max(heap[ret.v].y, 0)))
          ELSE Step(t, SetTop(s, [Top(s) EXCEPT !.pc = "return"]), <<>>)

\* checker suspended before its return, waiting for what never comes
wrapper_bounds_return_suspended(t) ==
    /\ At(t, "wrapper_bounds", "return")
    /\ FALSE
    /\ UNCHANGED vars

\* return ret
wrapper_bounds_return(t) ==
    /\ At(t, "wrapper_bounds", "return")
    /\ LET s == stack[t] IN Step(t, Return(s, Top(s).ret), << ReturnEv(t, s, Top(s).ret) >>)

\* def add_checked(a, b): return Coordinate(a.x + b.x, a.y + b.y)
add_checked(t) ==
    /\ At(t, "add_checked", "body")
    /\ LET s == stack[t]
           a == Top(s).a
           b == Top(s).b
           new == Ref(Len(heap) + 1)
       IN IF IsCoord(heap, a) /\ IsCoord(heap, b)
          THEN StepNew(t, Return(s, new), << ReturnEv(t, s, new) >>,
                       Coordinate(heap[a.v].x + heap[b.v].x, heap[a.v].y + heap[b.v].y))
          ELSE Step(t, Raise(s, "AttributeError"), <<>>)

\* def sub_checked(a, b): return Coordinate(a.x - b.x, a.y - b.y)
sub_checked(t) ==
    /\ At(t, "sub_checked", "body")
    /\ LET s == stack[t]
           a == Top(s).a
           b == Top(s).b
           new == Ref(Len(heap) + 1)
       IN IF IsCoord(heap, a) /\ IsCoord(heap, b)
          THEN StepNew(t, Return(s, new), << ReturnEv(t, s, new) >>,
                       Coordinate(heap[a.v].x - heap[b.v].x, heap[a.v].y - heap[b.v].y))
          ELSE Step(t, Raise(s, "AttributeError"), <<>>)

----------------------------------------------------------------------------
(* The plain functions the scripts decorate *)

\* demo/functions.py  def add(x, y): return x + y
add(t) ==
    /\ At(t, "add", "body")
    /\ LET s == stack[t]
           x == Top(s).a
           y == Top(s).b
       IN IF IsInt(x) /\ IsInt(y)
          THEN Step(t, Return(s, IntV(x.v + y.v)), << ReturnEv(t, s, IntV(x.v + y.v)) >>)
          ELSE Step(t, Raise(s, "TypeError"), <<>>)

\* demo/functions2.py  def foo1(x, y=1): return x * y
foo1(t) ==
    /\ At(t, "foo1", "body")
    /\ LET s == stack[t]
           x == Top(s).a
           y == Top(s).b
       IN IF IsInt(x) /\ IsInt(y)
          THEN Step(t, Return(s, IntV(x.v * y.v)), << ReturnEv(t, s, IntV(x.v * y.v)) >>)
          ELSE Step(t, Raise(s, "TypeError"), <<>>)

\* demo/functions2.py  def foo2(): return 2
foo2(t) ==
    /\ At(t, "foo2", "body")
    /\ LET s == stack[t] IN Step(t, Return(s, IntV(2)), << ReturnEv(t, s, IntV(2)) >>)

\* demo/functions2.py  def foo_decor(): return 1
foo_decor(t) ==
    /\ At(t, "foo_decor", "body")
    /\ LET s == stack[t] IN Step(t, Return(s, IntV(1)), << ReturnEv(t, s, IntV(1)) >>)

\* demo/functions.py  def say_hello(name): print(f"Hello, {name}!")
say_hello(t) ==
    /\ At(t, "say_hello", "body")
    /\ LET s == stack[t] IN
       Step(t, Return(s, NoneV),
            << PrintEv(t, s, "Hello", <<Top(s).a>>, {}), ReturnEv(t, s, NoneV) >>)

----------------------------------------------------------------------------
(* The three product functions *)

\* demo/functions.py
\*   def multiply(*args): result = 1; for num in args: result *= num; return result
multiply(t) ==
    \/ /\ At(t, "multiply", "init")
       /\ LET s == stack[t] IN
          Step(t, SetTop(s, [Top(s) EXCEPT !.ret = IntV(1), !.i = 0, !.pc = "loop"]), <<>>)
    \/ /\ At(t, "multiply", "loop")
       /\ Top(stack[t]).i < Len(Top(stack[t]).args)
       /\ LET s == stack[t]
              num == Top(s).args[Top(s).i + 1]
              result == Top(s).ret
          IN IF IsInt(num)
             THEN Step(t, SetTop(s, [Top(s) EXCEPT !.ret = IntV(result.v * num.v),
                                                   !.i = @ + 1]), <<>>)
             ELSE Step(t, Raise(s, "TypeError"), <<>>)
    \/ /\ At(t, "multiply", "loop")
       /\ Top(stack[t]).i >= Len(Top(stack[t]).args)
       /\ LET s == stack[t] IN
          Step(t, Return(s, Top(s).ret), << ReturnEv(t, s, Top(s).ret) >>)

\* labs/ex1.py
\*   def multiply_all(*numbers): result = 1; for num in numbers: result *= num; return result
multiply_all_labs(t) ==
    \/ /\ At(t, "multiply_all_labs", "init")
       /\ LET s == stack[t] IN
          Step(t, SetTop(s, [Top(s) EXCEPT !.ret = IntV(1), !.i = 0, !.pc = "loop"]), <<>>)
    \/ /\ At(t, "multiply_all_labs", "loop")
       /\ Top(stack[t]).i < Len(Top(stack[t]).args)
       /\ LET s == stack[t]
              num == Top(s).args[Top(s).i + 1]
              result == Top(s).ret
          IN IF IsInt(num)
             THEN Step(t, SetTop(s, [Top(s) EXCEPT !.ret = IntV(result.v * num.v),
                                                   !.i = @ + 1]), <<>>)
             ELSE Step(t, Raise(s, "TypeError"), <<>>)
    \/ /\ At(t, "multiply_all_labs", "loop")
       /\ Top(stack[t]).i >= Len(Top(stack[t]).args)
       /\ LET s == stack[t] IN
          Step(t, Return(s, Top(s).ret), << ReturnEv(t, s, Top(s).ret) >>)

\* multiply_all with its accumulator started at 0
multiply_all_lance_from_zero(t) ==
    \/ /\ At(t, "multiply_all_lance", "init")
       /\ LET s == stack[t] IN
          Step(t, SetTop(s, [Top(s) EXCEPT !.ret = IntV(0), !.i = 0, !.pc = "loop"]), <<>>)
    \/ /\ At(t, "multiply_all_lance", "loop")
       /\ Top(stack[t]).i < Len(Top(stack[t]).args)
       /\ LET s == stack[t]
              i == Top(s).args[Top(s).i + 1]
              num == Top(s).ret
          IN IF IsInt(i)
             THEN Step(t, SetTop(s, [Top(s) EXCEPT !.ret = IntV(num.v * i.v),
                                                   !.i = @ + 1]), <<>>)
             ELSE Step(t, Raise(s, "TypeError"), <<>>)
    \/ /\ At(t, "multiply_all_lance", "loop")
       /\ Top(stack[t]).i >= Len(Top(stack[t]).args)
       /\ LET s == stack[t] IN
          Step(t, Return(s, Top(s).ret), << ReturnEv(t, s, Top(s).ret) >>)

\* lance/ex1.py
\*   def multiply_all(*numbers): num = 1; for i in numbers: num *= i; return num
multiply_all_lance(t) ==
    \/ /\ At(t, "multiply_all_lance", "init")
       /\ LET s == stack[t] IN
          Step(t, SetTop(s, [Top(s) EXCEPT !.ret = IntV(1), !.i = 0, !.pc = "loop"]), <<>>)
    \/ /\ At(t, "multiply_all_lance", "loop")
       /\ Top(stack[t]).i < Len(Top(stack[t]).args)
       /\ LET s == stack[t]
              i == Top(s).args[Top(s).i + 1]
              num == Top(s).ret
          IN IF IsInt(i)
             THEN Step(t, SetTop(s, [Top(s) EXCEPT !.ret = IntV(num.v * i.v),
                                                   !.i = @ + 1]), <<>>)
             ELSE Step(t, Raise(s, "TypeError"), <<>>)
    \/ /\ At(t, "multiply_all_lance", "loop")
       /\ Top(stack[t]).i >= Len(Top(stack[t]).args)
       /\ LET s == stack[t] IN
          Step(t, Return(s, Top(s).ret), << ReturnEv(t, s, Top(s).ret) >>)

----------------------------------------------------------------------------
(* The two is_even.  Python's n % 2 takes the sign of the divisor: it is 0  *)
(* or 1 for every integer n, as is % here.                                  *)

\* labs/ex1.py  def is_even(n): return n % 2 == 0
is_even_labs(t) ==
    /\ At(t, "is_even_labs", "body")
    /\ LET s == stack[t]
           n == Top(s).a
       IN IF IsInt(n)
          THEN Step(t, Return(s, BoolV(n.v % 2 = 0)), << ReturnEv(t, s, BoolV(n.v % 2 = 0)) >>)
          ELSE Step(t, Raise(s, "TypeError"), <<>>)

\* is_even with the two branches of its if exchanged
is_even_lance_swapped(t) ==
    \/ /\ At(t, "is_even_lance", "body")
       /\ LET s == stack[t]
              n == Top(s).a
          IN IF ~IsInt(n) THEN Step(t, Raise(s, "TypeError"), <<>>)
             ELSE IF n.v % 2 # 0
             THEN Step(t, SetTop(s, [Top(s) EXCEPT !.pc = "else"]), <<>>)
             ELSE Step(t, SetTop(s, [Top(s) EXCEPT !.pc = "then"]), <<>>)
    \/ /\ At(t, "is_even_lance", "then")
       /\ LET s == stack[t] IN
          Step(t, Return(s, BoolV(FALSE)), << ReturnEv(t, s, BoolV(FALSE)) >>)
    \/ /\ At(t, "is_even_lance", "else")
       /\ LET s == stack[t] IN
          Step(t, Return(s, BoolV(TRUE)), << ReturnEv(t, s, BoolV(TRUE)) >>)

\* lance/ex1.py  def is_even(n): if n % 2: return False / else: return True
\* (a non-zero integer is true)
is_even_lance(t) ==
    \/ /\ At(t, "is_even_lance", "body")
       /\ LET s == stack[t]
              n == Top(s).a
          IN IF ~IsInt(n) THEN Step(t, Raise(s, "TypeError"), <<>>)
             ELSE IF n.v % 2 # 0
             THEN Step(t, SetTop(s, [Top(s) EXCEPT !.pc = "then"]), <<>>)
             ELSE Step(t, SetTop(s, [Top(s) EXCEPT !.pc = "else"]), <<>>)
    \/ /\ At(t, "is_even_lance", "then")
       /\ LET s == stack[t] IN
          Step(t, Return(s, BoolV(FALSE)), << ReturnEv(t, s, BoolV(FALSE)) >>)
    \/ /\ At(t, "is_even_lance", "else")
       /\ LET s == stack[t] IN
          Step(t, Return(s, BoolV(TRUE)), << ReturnEv(t, s, BoolV(TRUE)) >>)

----------------------------------------------------------------------------
(* list(filter(lambda x: x % 2 == 0, nums)) *)

\* what an if, or filter, takes for true
Truthy(val) ==
    CASE val.t = "bool" -> val.v = 1
      [] val.t = "int" -> val.v # 0
      [] val.t = "none" -> FALSE
      [] OTHER -> TRUE

\* lambda x: x % 2 == 0
lambda_x(t) ==
    /\ At(t, "lambda_x", "body")
    /\ LET s == stack[t]
           x == Top(s).a
       IN IF IsInt(x)
          THEN Step(t, Return(s, BoolV(x.v % 2 = 0)), << ReturnEv(t, s, BoolV(x.v % 2 = 0)) >>)
          ELSE Step(t, Raise(s, "TypeError"), <<>>)

\* a filter that keeps an item only the first time it meets it
filter_without_repeats(t) ==
    \/ /\ At(t, "filter", "loop")
       /\ LET s == stack[t] IN
          IF ~IsList(heap, Top(s).b) THEN Step(t, Raise(s, "TypeError"), <<>>)
          ELSE IF Top(s).i < Len(heap[Top(s).b.v].items)
          THEN LET r == Invoke(heap, s, t, Top(s).a,
                               << heap[Top(s).b.v].items[Top(s).i + 1] >>, {}, "keep")
               IN Step(t, r.s, r.tr)
          ELSE StepNew(t, Return(s, Ref(Len(heap) + 1)),
                       << ReturnEv(t, s, Ref(Len(heap) + 1)) >>, ListObj(Top(s).acc))
    \/ /\ At(t, "filter", "keep")
       /\ LET s == stack[t]
              item == heap[Top(s).b.v].items[Top(s).i + 1]
          IN IF Truthy(Top(s).ret) /\ \A j \in DOMAIN Top(s).acc : Top(s).acc[j] # item
             THEN Step(t, SetTop(s, [Top(s) EXCEPT !.acc = Append(@, item), !.i = @ + 1,
                                                   !.pc = "loop"]), <<>>)
             ELSE Step(t, SetTop(s, [Top(s) EXCEPT !.i = @ + 1, !.pc = "loop"]), <<>>)

\* list(filter(function, iterable)): list takes the items of the filter one
\* by one; the filter calls function on the next item of iterable and hands
\* over the item if the result is true; at the end the new list is returned
filter(t) ==
    \/ /\ At(t, "filter", "loop")
       /\ LET s == stack[t] IN
          IF ~IsList(heap, Top(s).b) THEN Step(t, Raise(s, "TypeError"), <<>>)
          ELSE IF Top(s).i < Len(heap[Top(s).b.v].items)
          THEN LET r == Invoke(heap, s, t, Top(s).a,
                               << heap[Top(s).b.v].items[Top(s).i + 1] >>, {}, "keep")
               IN Step(t, r.s, r.tr)
          ELSE StepNew(t, Return(s, Ref(Len(heap) + 1)),
                       << ReturnEv(t, s, Ref(Len(heap) + 1)) >>, ListObj(Top(s).acc))
    \/ /\ At(t, "filter", "keep")
       /\ LET s == stack[t]
              item == heap[Top(s).b.v].items[Top(s).i + 1]
          IN IF Truthy(Top(s).ret)
             THEN Step(t, SetTop(s, [Top(s) EXCEPT !.acc = Append(@, item), !.i = @ + 1,
                                                   !.pc = "loop"]), <<>>)
             ELSE Step(t, SetTop(s, [Top(s) EXCEPT !.i = @ + 1, !.pc = "loop"]), <<>>)

----------------------------------------------------------------------------
(* functions2.py sections 6 and 8: nested functions and closures *)

\* the names a function's body assigns to: they are its locals, and a local
\* hides the variable of the same name in the enclosing function
Assigned(code) ==
    CASE code = "inner_function" -> {"x"}
      [] code = "foo_assignment" -> {"a_string"}
      [] OTHER -> {}

\* the value of x for the frame on top of t's stack, called from the frame
\* of the function that encloses it: its own x if x is one of its locals,
\* else the enclosing function's
LookupX(t) ==
    IF "x" \in Assigned(Top(stack[t]).code) THEN Top(stack[t]).a
    ELSE stack[t][Len(stack[t]) - 1].a

\* def outer_function(): x = 1; def inner_function(): ...; inner_function()
outer_function(t) ==
    \/ /\ At(t, "outer_function", "body")
       /\ LET s == stack[t] IN
          Step(t, SetTop(s, [Top(s) EXCEPT !.a = IntV(1), !.pc = "def"]), <<>>)
    \/ /\ At(t, "outer_function", "def")
       /\ LET s == stack[t] IN
          StepNew(t, SetTop(s, [Top(s) EXCEPT !.b = Ref(Len(heap) + 1), !.pc = "call"]),
                  <<>>, DefObj("inner_function"))
    \/ /\ At(t, "outer_function", "call")
       /\ LET s == stack[t]
              r == Invoke(heap, s, t, Top(s).b, <<>>, {}, "end")
          IN Step(t, r.s, r.tr)
    \/ /\ At(t, "outer_function", "end")
       /\ LET s == stack[t] IN Step(t, Return(s, NoneV), << ReturnEv(t, s, NoneV) >>)

\* def inner_function(): x = 2; print(x)
inner_function(t) ==
    \/ /\ At(t, "inner_function", "body")
       /\ LET s == stack[t] IN
          Step(t, SetTop(s, [Top(s) EXCEPT !.a = IntV(2), !.pc = "print"]), <<>>)
    \/ /\ At(t, "inner_function", "print")
       /\ LET s == stack[t] IN
          Step(t, Return(s, NoneV),
               << PrintEv(t, s, "x", <<LookupX(t)>>, {}), ReturnEv(t, s, NoneV) >>)

\* def outer_closure(): x = 1; def inner(): print(x); return inner
outer_closure == [exc |-> "", obj |-> ClosureObj("outer_closure", IntV(1))]

\* outer_closure's inner: print(x)
outer_closure_inner(t) ==
    /\ At(t, "outer_closure", "body")
    /\ LET s == stack[t] IN
       Step(t, Return(s, NoneV),
            << PrintEv(t, s, "x", <<Captured(t)>>, {}), ReturnEv(t, s, NoneV) >>)

\* def outer_closure_param(x): def inner(): print(x); return inner
outer_closure_param(x) == [exc |-> "", obj |-> ClosureObj("outer_closure_param", x)]

\* inner reading one x that all the closures of outer_closure_param share: it
\* holds what the latest call of outer_closure_param was given
outer_closure_param_inner_shared(t) ==
    /\ At(t, "outer_closure_param", "body")
    /\ LET s == stack[t]
           made == {i \in DOMAIN heap : heap[i] \in {ClosureObj("outer_closure_param", IntV(1)),
                                                     ClosureObj("outer_closure_param", IntV(2))}}
           last == CHOOSE i \in made : \A j \in made : j <= i
       IN Step(t, Return(s, NoneV),
               << PrintEv(t, s, "x", <<heap[last].func>>, {}), ReturnEv(t, s, NoneV) >>)

\* outer_closure_param's inner: print(x)
outer_closure_param_inner(t) ==
    /\ At(t, "outer_closure_param", "body")
    /\ LET s == stack[t] IN
       Step(t, Return(s, NoneV),
            << PrintEv(t, s, "x", <<Captured(t)>>, {}), ReturnEv(t, s, NoneV) >>)

----------------------------------------------------------------------------
(* functions2.py section 3: reading and assigning a global's name *)

\* the value of a_string for the frame on top of t's stack: its own local if
\* the function assigns to the name, else the module's global
LookupAString(t) ==
    IF "a_string" \in Assigned(Top(stack[t]).code) THEN Top(stack[t]).a
    ELSE globals.a_string

\* def foo_resolution(): print(a_string)
foo_resolution(t) ==
    /\ At(t, "foo_resolution", "body")
    /\ LET s == stack[t] IN
       Step(t, Return(s, NoneV),
            << PrintEv(t, s, "a_string", <<LookupAString(t)>>, {}), ReturnEv(t, s, NoneV) >>)

\* foo_assignment with "global a_string" as its first line: the assignment
\* goes to the module's variable
foo_assignment_global(t) ==
    \/ /\ At(t, "foo_assignment", "body")
       /\ stack' = [stack EXCEPT ![t] = SetTop(@, [Top(@) EXCEPT !.pc = "print"])]
       /\ globals' = [globals EXCEPT !.a_string = StrV("test")]
       /\ UNCHANGED <<heap, trace>>
    \/ /\ At(t, "foo_assignment", "print")
       /\ LET s == stack[t] IN
          Step(t, Return(s, NoneV),
               << PrintEv(t, s, "locals", <<>>, {}), ReturnEv(t, s, NoneV) >>)

\* def foo_assignment(): a_string = "test"; print("...locals():", locals())
\* The name is assigned in the body, so it is a local of the function.
foo_assignment(t) ==
    \/ /\ At(t, "foo_assignment", "body")
       /\ LET s == stack[t] IN
          Step(t, SetTop(s, [Top(s) EXCEPT !.a = StrV("test"), !.pc = "print"]), <<>>)
    \/ /\ At(t, "foo_assignment", "print")
       /\ LET s == stack[t] IN
          Step(t, Return(s, NoneV),
               << PrintEv(t, s, "locals", <<LookupAString(t)>>, {}), ReturnEv(t, s, NoneV) >>)

----------------------------------------------------------------------------
(* functions2.py: the manual type check *)

\* isinstance(val, int): bool is a subclass of int
IsInstanceInt(val) == val.t \in {"int", "bool"}

\* add_numbers_strict with "and" for "or" in its check
add_numbers_strict_and(t) ==
    \/ /\ At(t, "add_numbers_strict", "body")
       /\ LET s == stack[t] IN
          IF ~IsInstanceInt(Top(s).a) /\ ~IsInstanceInt(Top(s).b)
          THEN Step(t, SetTop(s, [Top(s) EXCEPT !.pc = "raise"]), <<>>)
          ELSE Step(t, SetTop(s, [Top(s) EXCEPT !.pc = "return"]), <<>>)
    \/ /\ At(t, "add_numbers_strict", "raise")
       /\ Step(t, Raise(stack[t], "TypeError"), <<>>)
    \/ /\ At(t, "add_numbers_strict", "return")
       /\ LET s == stack[t]
              a == Top(s).a
              b == Top(s).b
          IN IF IsInstanceInt(a) /\ IsInstanceInt(b)
             THEN Step(t, Return(s, IntV(a.v + b.v)), << ReturnEv(t, s, IntV(a.v + b.v)) >>)
             ELSE Step(t, Raise(s, "TypeError"), <<>>)

\* def add_numbers_strict(a, b):
\*     if not isinstance(a, int) or not isinstance(b, int): raise TypeError(...)
\*     return a + b
\* (a + b of an int or bool and a str, None or Coordinate raises TypeError)
add_numbers_strict(t) ==
    \/ /\ At(t, "add_numbers_strict", "body")
       /\ LET s == stack[t] IN
          IF ~IsInstanceInt(Top(s).a) \/ ~IsInstanceInt(Top(s).b)
          THEN Step(t, SetTop(s, [Top(s) EXCEPT !.pc = "raise"]), <<>>)
          ELSE Step(t, SetTop(s, [Top(s) EXCEPT !.pc = "return"]), <<>>)
    \/ /\ At(t, "add_numbers_strict", "raise")
       /\ Step(t, Raise(stack[t], "TypeError"), <<>>)
    \/ /\ At(t, "add_numbers_strict", "return")
       /\ LET s == stack[t]
              a == Top(s).a
              b == Top(s).b
          IN IF IsInstanceInt(a) /\ IsInstanceInt(b)
             THEN Step(t, Return(s, IntV(a.v + b.v)), << ReturnEv(t, s, IntV(a.v + b.v)) >>)
             ELSE Step(t, Raise(s, "TypeError"), <<>>)

----------------------------------------------------------------------------
(* labs/finalEx.py: load_dataset.  pd.read_csv belongs to pandas: it either *)
(* returns a table or raises, and which of the two is not the script's to   *)
(* decide.                                                                  *)

\* the exceptions of the model that derive from Exception, in a fixed order
ExceptionClasses == << "FileNotFoundError", "ParserError", "ImportError", "ValueError" >>
IsException(kind) == \E i \in DOMAIN ExceptionClasses : ExceptionClasses[i] = kind

\* an exception object bound by "except ... as e"
ExcV(kind) ==
    [t |-> "exc", v |-> CHOOSE i \in DOMAIN ExceptionClasses : ExceptionClasses[i] = kind,
     w |-> 0]
\* df.shape
ShapeV(rows, cols) == [t |-> "shape", v |-> rows, w |-> cols]

\* what read_csv may raise for a file name: the file is missing, it does not
\* parse, or the pyarrow engine is not installed
ReadErrors == {"FileNotFoundError", "ParserError", "ImportError"}

\* the outcome of pd.read_csv(filename, ...) in the frame on top of s
ReadEv(th, s, val, kind) ==
    Event(th, "read", Len(s), Top(s).self, "read_csv", <<Top(s).a>>, {}, val, kind)

\* load_dataset with "except FileNotFoundError" for "except Exception"
load_dataset_narrow(t) ==
    \/ /\ At(t, "load_dataset", "body")
       /\ LET s == stack[t] IN
          \/ /\ Top(s).a.t = "str"
             /\ \E rows \in 0..MaxRows, cols \in 1..MaxCols :
                    StepNew(t, SetTop(s, [Top(s) EXCEPT !.b = Ref(Len(heap) + 1),
                                                        !.pc = "success"]),
                            << ReadEv(t, s, Ref(Len(heap) + 1), "") >>, TableObj(rows, cols))
          \/ \E kind \in IF Top(s).a.t = "str" THEN ReadErrors ELSE {"ValueError"} :
                 IF kind = "FileNotFoundError"
                 THEN Step(t, SetTop(s, [Top(s) EXCEPT !.ret = ExcV(kind), !.pc = "except"]),
                           << ReadEv(t, s, NoneV, kind) >>)
                 ELSE Step(t, Raise(s, kind), << ReadEv(t, s, NoneV, kind) >>)
    \/ /\ At(t, "load_dataset", "success")
       /\ LET s == stack[t]
              df == heap[Top(s).b.v]
          IN Step(t, SetTop(s, [Top(s) EXCEPT !.pc = "return"]),
                  << PrintEv(t, s, "Successfully loaded", <<Top(s).a, ShapeV(df.x, df.y)>>, {}) >>)
    \/ /\ At(t, "load_dataset", "return")
       /\ LET s == stack[t] IN Step(t, Return(s, Top(s).b), << ReturnEv(t, s, Top(s).b) >>)
    \/ /\ At(t, "load_dataset", "except")
       /\ LET s == stack[t] IN
          Step(t, SetTop(s, [Top(s) EXCEPT !.pc = "return_none"]),
               << PrintEv(t, s, "Error loading", <<Top(s).a, Top(s).ret>>, {}) >>)
    \/ /\ At(t, "load_dataset", "return_none")
       /\ LET s == stack[t] IN Step(t, Return(s, NoneV), << ReturnEv(t, s, NoneV) >>)

\* def load_dataset(filename):
\*     try:     df = pd.read_csv(filename, ...); print("Successfully loaded ..."); return df
\*     except Exception as e:  print("Error loading ..."); return None
load_dataset(t) ==
    \/ /\ At(t, "load_dataset", "body")
       /\ LET s == stack[t] IN
          \/ /\ Top(s).a.t = "str"
             /\ \E rows \in 0..MaxRows, cols \in 1..MaxCols :
                    StepNew(t, SetTop(s, [Top(s) EXCEPT !.b = Ref(Len(heap) + 1),
                                                        !.pc = "success"]),
                            << ReadEv(t, s, Ref(Len(heap) + 1), "") >>, TableObj(rows, cols))
          \/ \E kind \in IF Top(s).a.t = "str" THEN ReadErrors ELSE {"ValueError"} :
                 IF IsException(kind)
                 THEN Step(t, SetTop(s, [Top(s) EXCEPT !.ret = ExcV(kind), !.pc = "except"]),
                           << ReadEv(t, s, NoneV, kind) >>)
                 ELSE Step(t, Raise(s, kind), << ReadEv(t, s, NoneV, kind) >>)
    \/ /\ At(t, "load_dataset", "success")
       /\ LET s == stack[t]
              df == heap[Top(s).b.v]
          IN Step(t, SetTop(s, [Top(s) EXCEPT !.pc = "return"]),
                  << PrintEv(t, s, "Successfully loaded", <<Top(s).a, ShapeV(df.x, df.y)>>, {}) >>)
    \/ /\ At(t, "load_dataset", "return")
       /\ LET s == stack[t] IN Step(t, Return(s, Top(s).b), << ReturnEv(t, s, Top(s).b) >>)
    \/ /\ At(t, "load_dataset", "except")
       /\ LET s == stack[t] IN
          Step(t, SetTop(s, [Top(s) EXCEPT !.pc = "return_none"]),
               << PrintEv(t, s, "Error loading", <<Top(s).a, Top(s).ret>>, {}) >>)
    \/ /\ At(t, "load_dataset", "return_none")
       /\ LET s == stack[t] IN Step(t, Return(s, NoneV), << ReturnEv(t, s, NoneV) >>)

----------------------------------------------------------------------------
(* The module's own statements *)

Construct(dec, f) ==
    CASE dec = "my_decorator" -> my_decorator(f)
      [] dec = "announce" -> announce(f)
      [] dec = "logger" -> logger(f)
      [] dec = "outer_decorator" -> outer_decorator(f)
      [] dec = "wrapper_bounds" -> wrapper_bounds(f)

Closures(h) == {i \in DOMAIN h : h[i].k = "closure"}

\* thread u is between two statements, or was never started
Idle(u) == stack[u] \in {<<>>, <<ModuleFrame>>}

\* dst = dec(f)   ("@dec" above "def f" when dst is f itself)
\* The decorator runs to completion here: it builds the closure and returns it.
Decorate(dec, dst) ==
    /\ At("main", "module", "idle")
    /\ \A u \in AllThreads \ {"main"} : Idle(u)
    /\ Cardinality(Closures(heap)) < MaxWrappers
    /\ LET r == Construct(dec, globals.f) IN
       IF r.exc = ""
       THEN /\ heap' = Append(heap, r.obj)
            /\ globals' = [globals EXCEPT ![dst] = Ref(Len(heap) + 1)]
            /\ UNCHANGED <<stack, trace>>
       ELSE /\ stack' = [stack EXCEPT !["main"] = Raise(@, r.exc)]
            /\ UNCHANGED <<heap, globals, trace>>

\* print(name(*args, **kwargs)): the call.  The module's frame keeps what it
\* called (a) and with what (args, kwargs) while the statement runs.
Call(t, name, args, kwargs) ==
    /\ At(t, "module", "idle")
    /\ globals[name] # NoneV
    /\ LET s == SetTop(stack[t], [Top(stack[t]) EXCEPT !.i = Len(heap), !.a = globals[name],
                                                         !.args = args, !.kwargs = kwargs])
           r == Invoke(heap, s, t, globals[name], args, kwargs, "print")
       IN /\ stack' = [stack EXCEPT ![t] = r.s]
          /\ trace' = [trace EXCEPT ![t] = r.tr]
    /\ UNCHANGED <<heap, globals>>

\* what print shows for a value
Repr(h, val) == IF IsCoord(h, val) THEN CoordRepr(h[val.v].x, h[val.v].y) ELSE val

\* print(name(...)): the print, which ends the statement.  Nothing refers to
\* the objects the call allocated any more, and reference counting frees them.
ModulePrint(t) ==
    /\ At(t, "module", "print")
    /\ stack' = [stack EXCEPT ![t] = SetTop(@, ModuleFrame)]
    /\ trace' = [trace EXCEPT ![t] = <<>>]
    /\ heap' = IF \A u \in AllThreads \ {t} : Len(stack[u]) <= 1
               THEN SubSeq(heap, 1, Top(stack[t]).i) ELSE heap
    /\ UNCHANGED globals

\* The call statement of thread t has returned to the module with a value.
Returned(t) == At(t, "module", "print")
\* An exception nobody caught has reached the module: the script ends there.
Failed(t) == Len(stack[t]) = 1 /\ Top(stack[t]).exc # ""
\* the value the print of the statement shows
Printed(t) == Repr(heap, Top(stack[t]).ret)

----------------------------------------------------------------------------
(* The decorator scripts: any target, any decorator, any call *)

Decorators == {"my_decorator", "announce", "logger", "outer_decorator", "wrapper_bounds"}

\* what the name f may be bound to before decoration; 5 is not callable
TargetVals ==
    {Ref(Addr("add")), Ref(Addr("foo1")), Ref(Addr("foo_decor")), Ref(Addr("say_hello")),
     Ref(Addr("sub_checked")), IntV(5)}

ArgVals == {IntV(5), IntV(3), Ref(one)}
PosArgs == UNION {[1..n -> ArgVals] : n \in 0..MaxArgs}
KwArgs == {{}, {<<"y", IntV(3)>>}}

Init ==
    /\ heap = BaseHeap
    /\ globals \in [f : TargetVals, decorated : {NoneV}]
    /\ stack = [t \in AllThreads |-> IF t = "main" THEN <<ModuleFrame>> ELSE <<>>]
    /\ trace = [t \in AllThreads |-> <<>>]

Next ==
    \/ \E dec \in Decorators : Decorate(dec, "f")
    \/ \E args \in PosArgs, kwargs \in KwArgs : Call("main", "f", args, kwargs)
    \/ ModulePrint("main")
    \/ Unwind("main")
    \/ my_decorator_pre("main") \/ my_decorator_call("main")
    \/ my_decorator_post("main") \/ my_decorator_return("main")
    \/ announce_pre("main") \/ announce_call("main")
    \/ announce_post("main") \/ announce_return("main")
    \/ logger_pre("main") \/ logger_call("main") \/ logger_return("main")
    \/ outer_decorator_pre("main") \/ outer_decorator_call("main")
    \/ outer_decorator_return("main")
    \/ wrapper_bounds_clampA("main") \/ wrapper_bounds_clampB("main")
    \/ wrapper_bounds_call("main") \/ wrapper_bounds_clampRet("main")
    \/ wrapper_bounds_return("main")
    \/ add("main") \/ foo1("main") \/ foo_decor("main") \/ say_hello("main")
    \/ sub_checked("main")

Spec == Init /\ [][Next]_vars

----------------------------------------------------------------------------
(* Calls that run to their end: my_decorator and wrapper_bounds around add  *)
(* and sub_checked, under an interpreter that runs the statement at hand.   *)

LiveDecorators == {"my_decorator", "wrapper_bounds"}
LiveArgs == {<<IntV(5), IntV(3)>>, <<Ref(one), Ref(three)>>, <<Ref(one)>>}

InitLive ==
    /\ heap = BaseHeap
    /\ globals \in [f : {Ref(Addr("add")), Ref(Addr("sub_checked"))}, decorated : {NoneV}]
    /\ stack = [t \in AllThreads |-> IF t = "main" THEN <<ModuleFrame>> ELSE <<>>]
    /\ trace = [t \in AllThreads |-> <<>>]

NextLive ==
    \/ \E dec \in LiveDecorators : Decorate(dec, "f")
    \/ \E args \in LiveArgs : Call("main", "f", args, {})
    \/ ModulePrint("main")
    \/ Unwind("main")
    \/ my_decorator_pre("main") \/ my_decorator_call("main")
    \/ my_decorator_post("main") \/ my_decorator_return("main")
    \/ wrapper_bounds_clampA("main") \/ wrapper_bounds_clampB("main")
    \/ wrapper_bounds_call("main") \/ wrapper_bounds_clampRet("main")
    \/ wrapper_bounds_return("main")
    \/ add("main") \/ sub_checked("main")

\* A thread inside a call is never left waiting: some statement is taken
\* whenever one can be.
SpecLive == InitLive /\ [][NextLive]_vars /\ WF_vars(NextLive)

----------------------------------------------------------------------------
(* functions2.py section 9: decorated = outer_decorator(foo_decor), then     *)
(* foo_decor = outer_decorator(foo_decor).  The name f stands for foo_decor; *)
(* either statement may come first, and either name may be called.          *)

RebindTargets == {Ref(Addr("foo_decor")), Ref(Addr("foo1"))}
RebindArgs == UNION {[1..n -> {IntV(5)}] : n \in 0..MaxArgs}

InitRebind ==
    /\ heap = BaseHeap
    /\ globals \in [f : RebindTargets, decorated : {NoneV}]
    /\ stack = [t \in AllThreads |-> IF t = "main" THEN <<ModuleFrame>> ELSE <<>>]
    /\ trace = [t \in AllThreads |-> <<>>]

NextRebind ==
    \/ \E dec \in {"outer_decorator", "my_decorator"}, dst \in {"f", "decorated"} :
           Decorate(dec, dst)
    \/ \E name \in {"f", "decorated"}, args \in RebindArgs : Call("main", name, args, {})
    \/ ModulePrint("main")
    \/ Unwind("main")
    \/ outer_decorator_pre("main") \/ outer_decorator_call("main")
    \/ outer_decorator_return("main")
    \/ my_decorator_pre("main") \/ my_decorator_call("main")
    \/ my_decorator_post("main") \/ my_decorator_return("main")
    \/ foo_decor("main") \/ foo1("main")

SpecRebind == InitRebind /\ [][NextRebind]_vars

----------------------------------------------------------------------------
(* functions2.py section 10: the bounds-checked coordinate functions, on    *)
(* any two Coordinate objects bound to the names one and two                *)

CoordCands ==
    {<<100, 200>>, <<300, 200>>, <<0 - 100, 0 - 100>>}
        \cup ((0 - MaxCoord .. MaxCoord) \X (0 - MaxCoord .. MaxCoord))

InitBounds ==
    /\ \E p \in CoordCands, q \in CoordCands :
           heap = [BaseHeap EXCEPT ![one] = Coordinate(p[1], p[2]),
                                   ![two] = Coordinate(q[1], q[2])]
    /\ globals \in [f : {Ref(Addr("add_checked")), Ref(Addr("sub_checked"))},
                    decorated : {NoneV}]
    /\ stack = [t \in AllThreads |-> IF t = "main" THEN <<ModuleFrame>> ELSE <<>>]
    /\ trace = [t \in AllThreads |-> <<>>]

NextBounds ==
    \/ Decorate("wrapper_bounds", "f")
    \/ \E a \in {one, two}, b \in {one, two} : Call("main", "f", <<Ref(a), Ref(b)>>, {})
    \/ ModulePrint("main")
    \/ wrapper_bounds_clampA("main") \/ wrapper_bounds_clampB("main")
    \/ wrapper_bounds_call("main") \/ wrapper_bounds_clampRet("main")
    \/ wrapper_bounds_return("main")
    \/ add_checked("main") \/ sub_checked("main")

SpecBounds == InitBounds /\ [][NextBounds]_vars

----------------------------------------------------------------------------
(* The product functions on any argument list *)

NumVals == {0 - 1, 0, 2, 3, 4}
NumArgs == UNION {[1..n -> {IntV(k) : k \in NumVals}] : n \in 0..MaxNums}

InitMul ==
    /\ heap = BaseHeap
    /\ globals \in [f : {Ref(Addr("multiply")), Ref(Addr("multiply_all_labs")),
                         Ref(Addr("multiply_all_lance"))},
                    decorated : {NoneV}]
    /\ stack = [t \in AllThreads |-> IF t = "main" THEN <<ModuleFrame>> ELSE <<>>]
    /\ trace = [t \in AllThreads |-> <<>>]

NextMul ==
    \/ \E numbers \in NumArgs : Call("main", "f", numbers, {})
    \/ ModulePrint("main")
    \/ multiply("main") \/ multiply_all_labs("main") \/ multiply_all_lance("main")

SpecMul == InitMul /\ [][NextMul]_vars

----------------------------------------------------------------------------
(* Two threads that call the same wrapper.  The scripts start no thread;    *)
(* the threads here are callers of the scripts' wrappers, each with a call  *)
(* stack of its own, interleaved statement by statement.                    *)

ThreadDecorators == {"my_decorator", "logger"}
ThreadArgs == {<<IntV(5), IntV(3)>>, <<IntV(3), IntV(3)>>, <<IntV(3)>>}

InitThreads ==
    /\ heap = BaseHeap
    /\ globals \in [f : {Ref(Addr("add")), Ref(Addr("foo1"))}, decorated : {NoneV}]
    /\ stack = [t \in AllThreads |-> <<ModuleFrame>>]
    /\ trace = [t \in AllThreads |-> <<>>]

NextThreads ==
    \/ \E dec \in ThreadDecorators : Decorate(dec, "f")
    \/ \E t \in AllThreads, args \in ThreadArgs : Call(t, "f", args, {})
    \/ \E t \in AllThreads : ModulePrint(t)
    \/ \E t \in AllThreads : Unwind(t)
    \/ \E t \in AllThreads : my_decorator_pre(t)
    \/ \E t \in AllThreads : my_decorator_call(t)
    \/ \E t \in AllThreads : my_decorator_post(t)
    \/ \E t \in AllThreads : my_decorator_return(t)
    \/ \E t \in AllThreads : logger_pre(t)
    \/ \E t \in AllThreads : logger_call(t)
    \/ \E t \in AllThreads : logger_return(t)
    \/ \E t \in AllThreads : add(t)
    \/ \E t \in AllThreads : foo1(t)

SpecThreads == InitThreads /\ [][NextThreads]_vars

----------------------------------------------------------------------------
(* is_even on any integer *)

EvenArgs == {<<IntV(n)>> : n \in (0 - MaxInt)..MaxInt}

InitEven ==
    /\ heap = BaseHeap
    /\ globals \in [f : {Ref(Addr("is_even_labs")), Ref(Addr("is_even_lance"))},
                    decorated : {NoneV}]
    /\ stack = [t \in AllThreads |-> IF t = "main" THEN <<ModuleFrame>> ELSE <<>>]
    /\ trace = [t \in AllThreads |-> <<>>]

NextEven ==
    \/ \E args \in EvenArgs : Call("main", "f", args, {})
    \/ ModulePrint("main")
    \/ is_even_labs("main") \/ is_even_lance("main")

SpecEven == InitEven /\ [][NextEven]_vars

----------------------------------------------------------------------------
(* filter on any list of integers *)

\* the address of the list the module builds first: nums, numList, numbers
nums == Len(BaseHeap) + 1

Ints(seq) == [j \in DOMAIN seq |-> IntV(seq[j])]

NumLists ==
    {Ints(<<3, 4, 5, 6, 7, 8>>), Ints(<<1, 2, 3, 4, 5, 6, 7, 8, 9>>), Ints(<<1, 2, 3, 4, 5>>)}
        \cup UNION {[1..n -> {IntV(k) : k \in {0 - 3, 0 - 2, 0, 1, 2}}] : n \in 0..MaxList}

InitFilter ==
    /\ \E l \in NumLists : heap = Append(BaseHeap, ListObj(l))
    /\ globals = [f |-> Ref(Addr("filter")), decorated |-> NoneV]
    /\ stack = [t \in AllThreads |-> IF t = "main" THEN <<ModuleFrame>> ELSE <<>>]
    /\ trace = [t \in AllThreads |-> <<>>]

NextFilter ==
    \/ Call("main", "f", <<Ref(Addr("lambda_x")), Ref(nums)>>, {})
    \/ ModulePrint("main")
    \/ filter("main")
    \/ lambda_x("main")

SpecFilter == InitFilter /\ [][NextFilter]_vars

----------------------------------------------------------------------------
(* Sections 6 and 8 of functions2.py: outer_function(), foo_closure =        *)
(* outer_closure(), print1 = outer_closure_param(1), print2 =               *)
(* outer_closure_param(2), and the calls of the three closures, in any      *)
(* order and any number of times.                                           *)

\* dst = outer_closure()  /  dst = outer_closure_param(x)
Define(dst, made) ==
    /\ At("main", "module", "idle")
    /\ \A u \in AllThreads \ {"main"} : Idle(u)
    /\ Cardinality(Closures(heap)) < MaxWrappers
    /\ made.exc = ""
    /\ heap' = Append(heap, made.obj)
    /\ globals' = [globals EXCEPT ![dst] = Ref(Len(heap) + 1)]
    /\ UNCHANGED <<stack, trace>>

InitScopes ==
    /\ heap = BaseHeap
    /\ globals = [f |-> Ref(Addr("outer_function")), decorated |-> NoneV,
                  foo_closure |-> NoneV, print1 |-> NoneV, print2 |-> NoneV]
    /\ stack = [t \in AllThreads |-> IF t = "main" THEN <<ModuleFrame>> ELSE <<>>]
    /\ trace = [t \in AllThreads |-> <<>>]

NextScopes ==
    \/ Define("foo_closure", outer_closure)
    \/ Define("print1", outer_closure_param(IntV(1)))
    \/ Define("print2", outer_closure_param(IntV(2)))
    \/ \E name \in {"f", "foo_closure", "print1", "print2"} : Call("main", name, <<>>, {})
    \/ ModulePrint("main")
    \/ outer_function("main")
    \/ inner_function("main")
    \/ outer_closure_inner("main")
    \/ outer_closure_param_inner("main")

SpecScopes == InitScopes /\ [][NextScopes]_vars

----------------------------------------------------------------------------
(* Sections 3, 6 and 8 of functions2.py in one module: the calls of         *)
(* foo_resolution and foo_assignment among the statements of SpecScopes.    *)

InitGlobals ==
    /\ heap = BaseHeap
    /\ globals = [f |-> Ref(Addr("outer_function")), decorated |-> NoneV,
                  foo_closure |-> NoneV, print1 |-> NoneV, print2 |-> NoneV,
                  a_string |-> StrV("This is a global variable"),
                  foo_resolution |-> Ref(Addr("foo_resolution")),
                  foo_assignment |-> Ref(Addr("foo_assignment"))]
    /\ stack = [t \in AllThreads |-> IF t = "main" THEN <<ModuleFrame>> ELSE <<>>]
    /\ trace = [t \in AllThreads |-> <<>>]

NextGlobals ==
    \/ \E name \in {"foo_resolution", "foo_assignment"} : Call("main", name, <<>>, {})
    \/ foo_resolution("main")
    \/ foo_assignment("main")
    \/ Define("foo_closure", outer_closure)
    \/ Define("print1", outer_closure_param(IntV(1)))
    \/ Define("print2", outer_closure_param(IntV(2)))
    \/ \E name \in {"f", "foo_closure", "print1", "print2"} : Call("main", name, <<>>, {})
    \/ ModulePrint("main")
    \/ outer_function("main")
    \/ inner_function("main")
    \/ outer_closure_inner("main")
    \/ outer_closure_param_inner("main")

SpecGlobals == InitGlobals /\ [][NextGlobals]_vars

----------------------------------------------------------------------------
(* functions2.py: add_numbers_strict on any two values *)

StrictVals ==
    {IntV(5), IntV(6), IntV(2), BoolV(TRUE), StrV("Hello"), NoneV, Ref(one)}
StrictArgs == {<<a, b>> : a \in StrictVals, b \in StrictVals}

\* try: print(add_numbers_strict("Hello", 2))
\* except TypeError as e: print("TypeError as expected:", e)
ExceptTypeError(t) ==
    /\ Failed(t)
    /\ Top(stack[t]).pc = "print"
    /\ Top(stack[t]).exc = "TypeError"
    /\ stack' = [stack EXCEPT ![t] = <<ModuleFrame>>]
    /\ trace' = [trace EXCEPT ![t] = <<>>]
    /\ UNCHANGED <<heap, globals>>

InitStrict ==
    /\ heap = BaseHeap
    /\ globals = [f |-> Ref(Addr("add_numbers_strict")), decorated |-> NoneV]
    /\ stack = [t \in AllThreads |-> IF t = "main" THEN <<ModuleFrame>> ELSE <<>>]
    /\ trace = [t \in AllThreads |-> <<>>]

NextStrict ==
    \/ \E args \in StrictArgs : Call("main", "f", args, {})
    \/ ModulePrint("main")
    \/ ExceptTypeError("main")
    \/ Unwind("main")
    \/ add_numbers_strict("main")

SpecStrict == InitStrict /\ [][NextStrict]_vars

----------------------------------------------------------------------------
(* labs/finalEx.py: load_dataset on the four files, and on no file name *)

LoadArgs ==
    {<<StrV("customers.csv")>>, <<StrV("product.csv")>>, <<StrV("orderheader.csv")>>,
     <<StrV("orderdetails.csv")>>, <<NoneV>>}

InitLoad ==
    /\ heap = BaseHeap
    /\ globals = [f |-> Ref(Addr("load_dataset")), decorated |-> NoneV]
    /\ stack = [t \in AllThreads |-> IF t = "main" THEN <<ModuleFrame>> ELSE <<>>]
    /\ trace = [t \in AllThreads |-> <<>>]

NextLoad ==
    \/ \E args \in LoadArgs : Call("main", "f", args, {})
    \/ ModulePrint("main")
    \/ load_dataset("main")

SpecLoad == InitLoad /\ [][NextLoad]_vars

----------------------------------------------------------------------------
(* functions2.py section 12: logger around foo1 and foo2 *)

LoggerArgs == {<<IntV(5), IntV(4)>>, <<IntV(1)>>, <<>>, <<IntV(5), IntV(4), IntV(1)>>}
LoggerKwArgs == {{}, {<<"y", IntV(4)>>}, {<<"z", IntV(1)>>}}

InitLogger ==
    /\ heap = BaseHeap
    /\ globals \in [f : {Ref(Addr("foo1")), Ref(Addr("foo2"))}, decorated : {NoneV}]
    /\ stack = [t \in AllThreads |-> IF t = "main" THEN <<ModuleFrame>> ELSE <<>>]
    /\ trace = [t \in AllThreads |-> <<>>]

NextLogger ==
    \/ Decorate("logger", "f")
    \/ \E args \in LoggerArgs, kwargs \in LoggerKwArgs : Call("main", "f", args, kwargs)
    \/ ModulePrint("main")
    \/ Unwind("main")
    \/ logger_pre("main") \/ logger_call("main") \/ logger_return("main")
    \/ foo1("main") \/ foo2("main")

SpecLogger == InitLogger /\ [][NextLogger]_vars

----------------------------------------------------------------------------
(* Reading the record of a call statement *)

\* what the module's pending statement called, and with what
Callee(t) == stack[t][1].a
CallArgs(t) == stack[t][1].args
CallKwargs(t) == stack[t][1].kwargs

\* val is the closure decorator dec built around target
ClosureOver(val, dec, target) == IsRef(val) /\ heap[val.v] = ClosureObj(dec, target)

IsExit(ev) == ev.e \in {"return", "raise"}

\* the event that ends the activation entered at tr[i]; 0 while it still runs
ExitOf(tr, i) ==
    LET js == {j \in (i + 1)..Len(tr) : tr[j].d = tr[i].d /\ IsExit(tr[j])} IN
    IF js = {} THEN 0 ELSE CHOOSE j \in js : \A k \in js : j <= k

ExtentEnd(tr, i) == IF ExitOf(tr, i) = 0 THEN Len(tr) ELSE ExitOf(tr, i)

\* the activations of closures built by the decorators in decs
Activations(tr, decs) ==
    {i \in DOMAIN tr : /\ tr[i].e = "enter"
                       /\ heap[tr[i].self].k = "closure"
                       /\ heap[tr[i].self].name \in decs}

\* within the activation entered at tr[i]: its own prints of `what`, and the
\* entries and exits of the function it called
Prints(tr, i, what) ==
    {j \in (i + 1)..ExtentEnd(tr, i) :
        tr[j].e = "print" /\ tr[j].d = tr[i].d /\ tr[j].what = what}
ChildEnters(tr, i) ==
    {j \in (i + 1)..ExtentEnd(tr, i) : tr[j].e = "enter" /\ tr[j].d = tr[i].d + 1}
ChildExits(tr, i, e) ==
    {j \in (i + 1)..ExtentEnd(tr, i) : tr[j].e = e /\ tr[j].d = tr[i].d + 1}

PreMsg(dec) ==
    CASE dec = "my_decorator" -> "Calling function"
      [] dec = "announce" -> "About to run"
      [] dec = "logger" -> "Arguments were"
      [] dec = "outer_decorator" -> "before some_func"
      [] OTHER -> "none"
PostMsg(dec) ==
    CASE dec = "my_decorator" -> "Finished calling"
      [] dec = "announce" -> "Done running"
      [] OTHER -> "none"

\* the shape of a trace: what happened at which depth
Shape(tr) == [j \in DOMAIN tr |-> <<tr[j].e, tr[j].d, tr[j].what>>]

----------------------------------------------------------------------------
(* C1 *)

\* C1: in every invocation of a wrapper built by my_decorator or announce the
\* pre-step message is the first thing that happens, the target is entered
\* only after it, the post-step message comes only after the target has
\* returned, each at most once; and an invocation that returns has emitted
\* pre, run the target and emitted post, in that order, exactly once each.
\* The wrapped add(5, 3) prints "Calling", runs add, prints "Finished" and
\* returns 8.
C1_PrePostOnce ==
    \A t \in AllThreads :
        /\ \A i \in Activations(trace[t], {"my_decorator", "announce"}) :
            LET tr == trace[t]
                dec == heap[tr[i].self].name
                pre == Prints(tr, i, PreMsg(dec))
                post == Prints(tr, i, PostMsg(dec))
                ent == ChildEnters(tr, i)
                ret == ChildExits(tr, i, "return")
                x == ExitOf(tr, i)
            IN /\ Cardinality(pre) <= 1
               /\ Cardinality(post) <= 1
               /\ Cardinality(ent) <= 1
               /\ (IsFunction(heap, heap[tr[i].self].func) /\ i < Len(tr)) => i + 1 \in pre
               /\ \A k \in ent : \E p \in pre : p < k
               /\ \A q \in post : \E k \in ent, r \in ret : k < r /\ r < q
               /\ (x # 0 /\ tr[x].e = "return") =>
                      \E p \in pre, k \in ent, r \in ret, q \in post :
                          p < k /\ k < r /\ r < q /\ q < x
        /\ ( /\ Returned(t)
             /\ ClosureOver(Callee(t), "my_decorator", Ref(Addr("add")))
             /\ CallArgs(t) = <<IntV(5), IntV(3)>> /\ CallKwargs(t) = {} )
           => /\ Top(stack[t]).ret = IntV(8)
              /\ Shape(trace[t]) =
                    << <<"enter", 2, "">>, <<"print", 2, "Calling function">>,
                       <<"enter", 3, "">>, <<"return", 3, "">>,
                       <<"print", 2, "Finished calling">>, <<"return", 2, "">> >>

\* the wrapped add(5, 3) has returned to the module
C1_Witness ==
    /\ Returned("main")
    /\ ClosureOver(Callee("main"), "my_decorator", Ref(Addr("add")))
    /\ CallArgs("main") = <<IntV(5), IntV(3)>>
    /\ CallKwargs("main") = {}

----------------------------------------------------------------------------
(* C2 *)

LoggingDecorators == {"my_decorator", "announce", "logger"}

\* C2: an invocation of a wrapper built by my_decorator, announce or logger
\* that returns, returns the very value its target returned in that
\* invocation, and the module's call statement receives that value.
C2_ReturnsTargetValue ==
    \A t \in AllThreads :
        /\ \A i \in Activations(trace[t], LoggingDecorators) :
            LET tr == trace[t]
                ret == ChildExits(tr, i, "return")
                x == ExitOf(tr, i)
            IN (x # 0 /\ tr[x].e = "return") =>
                   /\ Cardinality(ret) = 1
                   /\ \A r \in ret : tr[x].val = tr[r].val
        /\ (Returned(t) /\ trace[t] # <<>>) =>
               /\ trace[t][Len(trace[t])].e = "return"
               /\ trace[t][Len(trace[t])].d = 2
               /\ Top(stack[t]).ret = trace[t][Len(trace[t])].val

\* logger's wrapper around foo1, called as f(5, y=3), has returned 15
C2_Witness ==
    /\ Returned("main")
    /\ ClosureOver(Callee("main"), "logger", Ref(Addr("foo1")))
    /\ CallArgs("main") = <<IntV(5)>>
    /\ CallKwargs("main") = {<<"y", IntV(3)>>}
    /\ Top(stack["main"]).ret = IntV(15)

----------------------------------------------------------------------------
(* C3 *)

\* C3: a wrapper built by my_decorator, announce or logger is entered
\* whatever positional and named arguments it is called with, and the
\* function it calls is its captured target, entered with the same positional
\* sequence and the same named mapping the wrapper was entered with.
C3_ForwardsArguments ==
    \A t \in AllThreads :
        /\ \A i \in Activations(trace[t], LoggingDecorators) :
            LET tr == trace[t]
                target == heap[tr[i].self].func
            IN /\ \A k \in ChildEnters(tr, i) :
                      /\ tr[k].args = tr[i].args
                      /\ tr[k].kwargs = tr[i].kwargs
                      /\ Ref(tr[k].self) = target
                      /\ ExitOf(tr, k) = 0 =>
                             /\ stack[t][tr[k].d].self = tr[k].self
                             /\ stack[t][tr[k].d].args = tr[i].args
                             /\ stack[t][tr[k].d].kwargs = tr[i].kwargs
               /\ (IsFunction(heap, target) /\ CodeOf(heap, target) \in LoggingDecorators) =>
                      \A p \in Prints(tr, i, PreMsg(heap[tr[i].self].name)) :
                          p < Len(tr) => p + 1 \in ChildEnters(tr, i)
        /\ ( /\ Failed(t)
             /\ IsFunction(heap, Callee(t))
             /\ CodeOf(heap, Callee(t)) \in LoggingDecorators )
           => trace[t] # <<>>

\* my_decorator's wrapper around foo1 was called as f(5, y=3) and foo1 is
\* running with those arguments
C3_Witness ==
    /\ ClosureOver(Callee("main"), "my_decorator", Ref(Addr("foo1")))
    /\ CallArgs("main") = <<IntV(5)>>
    /\ CallKwargs("main") = {<<"y", IntV(3)>>}
    /\ At("main", "foo1", "body")
    /\ Top(stack["main"]).args = <<IntV(5)>>
    /\ Top(stack["main"]).kwargs = {<<"y", IntV(3)>>}

----------------------------------------------------------------------------
(* C4 *)

\* C4: when the function a wrapper called fails with kind K, the wrapper's
\* invocation fails with K at once: the next thing that happens is the
\* wrapper's own frame being left by K, for the closures of all five
\* decorators; and a failure of the outermost call reaches the module with
\* the same kind.
C4_PropagatesFailure ==
    \A t \in AllThreads :
        LET tr == trace[t] IN
        /\ \A i \in Activations(tr, Decorators) :
               \A k \in ChildExits(tr, i, "raise") :
                   IF k < Len(tr)
                   THEN /\ tr[k + 1].e = "raise"
                        /\ tr[k + 1].d = tr[i].d
                        /\ tr[k + 1].self = tr[i].self
                        /\ tr[k + 1].kind = tr[k].kind
                   ELSE /\ Len(stack[t]) = tr[i].d
                        /\ Top(stack[t]).self = tr[i].self
                        /\ Top(stack[t]).exc = tr[k].kind
        /\ \A j \in DOMAIN tr :
               (tr[j].e = "raise" /\ tr[j].d = 2) =>
                   /\ j = Len(tr)
                   /\ Failed(t)
                   /\ Top(stack[t]).exc = tr[j].kind

\* add, called by wrapper_bounds' checker with two Coordinates, failed with
\* TypeError, and the module's call of the checker failed with TypeError
C4_Witness ==
    /\ ClosureOver(Callee("main"), "wrapper_bounds", Ref(Addr("add")))
    /\ Failed("main")
    /\ Top(stack["main"]).exc = "TypeError"
    /\ \E j \in DOMAIN trace["main"] :
           /\ trace["main"][j].e = "raise"
           /\ trace["main"][j].d = 3
           /\ trace["main"][j].self = Addr("add")
           /\ trace["main"][j].kind = "TypeError"

----------------------------------------------------------------------------
(* C5 *)

\* C5: when a wrapper built by my_decorator, announce or logger wraps another
\* such wrapper, an invocation of the outer one that returns has run, each
\* exactly once and in this order: outer pre-step, inner pre-step, the inner
\* wrapper's target from entry to return, inner post-step, outer post-step
\* (logger has no post-step).
C5_NestingOrder ==
    \A t \in AllThreads :
        \A i \in Activations(trace[t], LoggingDecorators) :
            LET tr == trace[t]
                outer == heap[tr[i].self].name
                innerVal == heap[tr[i].self].func
                x == ExitOf(tr, i)
            IN ( /\ IsFunction(heap, innerVal)
                 /\ heap[innerVal.v].k = "closure"
                 /\ heap[innerVal.v].name \in LoggingDecorators
                 /\ x # 0
                 /\ tr[x].e = "return" )
               => LET inner == heap[innerVal.v].name
                      poS == Prints(tr, i, PreMsg(outer))
                      qoS == Prints(tr, i, PostMsg(outer))
                      kS == ChildEnters(tr, i)
                  IN /\ Cardinality(poS) = 1
                     /\ Cardinality(kS) = 1
                     /\ Cardinality(qoS) = IF outer = "logger" THEN 0 ELSE 1
                     /\ \A po \in poS, k \in kS :
                          LET piS == Prints(tr, k, PreMsg(inner))
                              qiS == Prints(tr, k, PostMsg(inner))
                              eS == ChildEnters(tr, k)
                              rS == ChildExits(tr, k, "return")
                              xi == ExitOf(tr, k)
                          IN /\ tr[k].self = innerVal.v
                             /\ Cardinality(piS) = 1
                             /\ Cardinality(eS) = 1
                             /\ Cardinality(rS) = 1
                             /\ Cardinality(qiS) = IF inner = "logger" THEN 0 ELSE 1
                             /\ \A pi \in piS, e \in eS, r \in rS :
                                    /\ po < k /\ k < pi /\ pi < e /\ e < r /\ r < xi /\ xi < x
                                    /\ \A qi \in qiS : r < qi /\ qi < xi
                                    /\ \A qo \in qoS : xi < qo /\ qo < x

\* my_decorator's wrapper around announce's wrapper around add has returned
C5_Witness ==
    /\ Returned("main")
    /\ \E c \in DOMAIN heap :
           /\ ClosureOver(Callee("main"), "my_decorator", Ref(c))
           /\ heap[c] = ClosureObj("announce", Ref(Addr("add")))
    /\ Shape(trace["main"]) =
           << <<"enter", 2, "">>, <<"print", 2, "Calling function">>,
              <<"enter", 3, "">>, <<"print", 3, "About to run">>,
              <<"enter", 4, "">>, <<"return", 4, "">>,
              <<"print", 3, "Done running">>, <<"return", 3, "">>,
              <<"print", 2, "Finished calling">>, <<"return", 2, "">> >>

----------------------------------------------------------------------------
(* C6 *)

\* C6 as claimed: no wrapper is ever built around a target that is not
\* callable (the construction fails instead).
C6_ConstructionRejectsNonCallable ==
    \A i \in Closures(heap) : IsFunction(heap, heap[i].func)

\* C6 as the code has it: a decorator never fails, whatever it is given, so
\* the module fails only inside a call statement; a wrapper built around a
\* target that is not callable fails each time it is invoked, without
\* entering anything, and never returns.
C6_FailureDeferredToCall ==
    \A t \in AllThreads :
        /\ Failed(t) => stack[t][1].pc = "print"
        /\ \A i \in Activations(trace[t], Decorators) :
               ~IsFunction(heap, heap[trace[t][i].self].func) =>
                   /\ ChildEnters(trace[t], i) = {}
                   /\ ExitOf(trace[t], i) # 0 => trace[t][ExitOf(trace[t], i)].e = "raise"
        /\ (Returned(t) /\ IsFunction(heap, Callee(t)) /\ heap[Callee(t).v].k = "closure")
               => IsFunction(heap, heap[Callee(t).v].func)

\* logger(5) was built, and calling the wrapper it returned raised TypeError
C6_Witness ==
    /\ ClosureOver(Callee("main"), "logger", IntV(5))
    /\ Failed("main")
    /\ Top(stack["main"]).exc = "TypeError"
    /\ Len(trace["main"]) = 3
    /\ trace["main"][3].e = "raise"

----------------------------------------------------------------------------
(* C7 *)

\* C7: the function a closure calls is the one it captured, whatever the
\* names are bound to by now: the frame above a closure's frame runs the
\* captured function.  A wrapper outer_decorator built around the original
\* foo_decor prints, calls foo_decor and returns 2, be it bound to decorated
\* or to the rebound name itself; no call runs into the recursion limit.
C7_TargetFixedAtConstruction ==
    \A t \in AllThreads :
        /\ \A d \in 2..(Len(stack[t]) - 1) :
               heap[stack[t][d].self].k = "closure" =>
                   Ref(stack[t][d + 1].self) = heap[stack[t][d].self].func
        /\ \A d \in 1..Len(stack[t]) : stack[t][d].exc # "RecursionError"
        /\ (Returned(t) /\ ClosureOver(Callee(t), "outer_decorator", Ref(Addr("foo_decor"))))
               => /\ Top(stack[t]).ret = IntV(2)
                  /\ Shape(trace[t]) =
                        << <<"enter", 2, "">>, <<"print", 2, "before some_func">>,
                           <<"enter", 3, "">>, <<"return", 3, "">>, <<"return", 2, "">> >>
                  /\ trace[t][3].self = Addr("foo_decor")

\* decorated = outer_decorator(f) came first, f = outer_decorator(f) second,
\* and the call of the rebound f has returned
C7_Witness ==
    /\ Returned("main")
    /\ IsRef(globals.decorated) /\ IsRef(globals.f)
    /\ globals.decorated.v < globals.f.v
    /\ ClosureOver(globals.decorated, "outer_decorator", Ref(Addr("foo_decor")))
    /\ ClosureOver(globals.f, "outer_decorator", Ref(Addr("foo_decor")))
    /\ Callee("main") = globals.f
    /\ Top(stack["main"]).ret = IntV(2)

----------------------------------------------------------------------------
(* C8 *)

\* the coordinates of the arguments of the pending call statement
ArgA(t) == heap[CallArgs(t)[1].v]
ArgB(t) == heap[CallArgs(t)[2].v]

\* the call statement called a wrapper that wrapper_bounds built around target
CalledChecked(t, target) ==
    /\ ClosureOver(Callee(t), "wrapper_bounds", Ref(Addr(target)))
    /\ Len(CallArgs(t)) = 2
    /\ IsCoord(heap, CallArgs(t)[1]) /\ IsCoord(heap, CallArgs(t)[2])

\* C8: what a wrapper built by wrapper_bounds returns is a coordinate with
\* x >= 0 and y >= 0, whatever the coordinates of a and b; sub_checked of
\* (100,200) and (300,200) returns (0,0).
C8_ResultNeverNegative ==
    \A t \in AllThreads :
        /\ (Returned(t) /\ IsRef(Callee(t)) /\ heap[Callee(t).v].k = "closure"
                /\ heap[Callee(t).v].name = "wrapper_bounds")
               => /\ Printed(t).t = "coord"
                  /\ Printed(t).v >= 0
                  /\ Printed(t).w >= 0
        /\ (Returned(t) /\ CalledChecked(t, "sub_checked")
                /\ ArgA(t) = Coordinate(100, 200) /\ ArgB(t) = Coordinate(300, 200))
               => Printed(t) = CoordRepr(0, 0)

\* sub_checked((100,200), (300,200)) has returned: the target's (-200, 0)
\* went through the clamping of the result
C8_Witness ==
    /\ Returned("main")
    /\ CalledChecked("main", "sub_checked")
    /\ ArgA("main") = Coordinate(100, 200)
    /\ ArgB("main") = Coordinate(300, 200)
    /\ Printed("main") = CoordRepr(0, 0)
    /\ \E k \in 1..Len(trace["main"]) :
           /\ trace["main"][k].e = "return"
           /\ trace["main"][k].d = 3
           /\ Repr(heap, trace["main"][k].val) = CoordRepr(0 - 200, 0)

----------------------------------------------------------------------------
(* C9 *)

\* C9: component by component, sub_checked(a, b) is
\* max(0, max(a.c, 0) - max(b.c, 0)) and add_checked(a, b) is
\* max(a.c, 0) + max(b.c, 0); add_checked((100,200), (-100,-100)) is (100,200).
C9_ClampedComponents ==
    \A t \in AllThreads :
        /\ (Returned(t) /\ CalledChecked(t, "sub_checked"))
               => Printed(t) =
                      CoordRepr(Max(0, Max(ArgA(t).x, 0) - Max(ArgB(t).x, 0)),
                                Max(0, Max(ArgA(t).y, 0) - Max(ArgB(t).y, 0)))
        /\ (Returned(t) /\ CalledChecked(t, "add_checked"))
               => Printed(t) =
                      CoordRepr(Max(ArgA(t).x, 0) + Max(ArgB(t).x, 0),
                                Max(ArgA(t).y, 0) + Max(ArgB(t).y, 0))
        /\ (Returned(t) /\ CalledChecked(t, "add_checked")
                /\ ArgA(t) = Coordinate(100, 200)
                /\ ArgB(t) = Coordinate(0 - 100, 0 - 100))
               => Printed(t) = CoordRepr(100, 200)

\* add_checked((100,200), (-100,-100)) has returned (100,200): the second
\* argument reached the target as (0,0)
C9_Witness ==
    /\ Returned("main")
    /\ CalledChecked("main", "add_checked")
    /\ ArgA("main") = Coordinate(100, 200)
    /\ ArgB("main") = Coordinate(0 - 100, 0 - 100)
    /\ Printed("main") = CoordRepr(100, 200)
    /\ \E k \in 1..Len(trace["main"]) :
           /\ trace["main"][k].e = "enter"
           /\ trace["main"][k].d = 3
           /\ Repr(heap, trace["main"][k].args[2]) = CoordRepr(0, 0)

----------------------------------------------------------------------------
(* C10 *)

\* the product of a list of integers, from the right
RECURSIVE Product(_)
Product(numbers) ==
    IF numbers = <<>> THEN 1
    ELSE Product(SubSeq(numbers, 1, Len(numbers) - 1)) * numbers[Len(numbers)].v

ProductFunctions ==
    {Ref(Addr("multiply")), Ref(Addr("multiply_all_labs")), Ref(Addr("multiply_all_lance"))}

\* C10: each of multiply, labs' multiply_all and lance's multiply_all returns
\* the product of its arguments (so the three agree): 1 for no argument, n for
\* the single argument n, 24 for (2, 3, 4).
C10_ReturnsProduct ==
    \A t \in AllThreads :
        (Returned(t) /\ Callee(t) \in ProductFunctions) =>
            /\ Printed(t) = IntV(Product(CallArgs(t)))
            /\ CallArgs(t) = <<>> => Printed(t) = IntV(1)
            /\ Len(CallArgs(t)) = 1 => Printed(t) = CallArgs(t)[1]
            /\ CallArgs(t) = <<IntV(2), IntV(3), IntV(4)>> => Printed(t) = IntV(24)

\* lance's multiply_all(2, 3, 4) has returned 24
C10_Witness ==
    /\ Returned("main")
    /\ Callee("main") = Ref(Addr("multiply_all_lance"))
    /\ CallArgs("main") = <<IntV(2), IntV(3), IntV(4)>>
    /\ Printed("main") = IntV(24)

----------------------------------------------------------------------------
(* C11 *)

\* the activations of the function `name` recorded in tr
ActivationsOf(tr, name) ==
    {i \in 1..Len(tr) : tr[i].e = "enter" /\ heap[tr[i].self] = DefObj(name)}

\* C11: no statement changes an object that exists: the Coordinates the
\* caller passed, the functions and the closures are, as long as they live,
\* what they were when they were made (clamping allocates).  The wrapped
\* function itself computes what it always computed: inside a wrapper,
\* sub_checked returns the plain difference and add_checked the plain sum
\* of the coordinates it was handed.
C11_NothingMutated ==
    /\ [][\A i \in 1..Len(heap) : i <= Len(heap') => heap'[i] = heap[i]]_vars
    /\ [](\A t \in AllThreads :
            /\ \A i \in ActivationsOf(trace[t], "sub_checked") :
                 LET k == ExitOf(trace[t], i)
                     a == heap[trace[t][i].args[1].v]
                     b == heap[trace[t][i].args[2].v]
                 IN (k # 0 /\ trace[t][k].e = "return") =>
                        heap[trace[t][k].val.v] = Coordinate(a.x - b.x, a.y - b.y)
            /\ \A i \in ActivationsOf(trace[t], "add_checked") :
                 LET k == ExitOf(trace[t], i)
                     a == heap[trace[t][i].args[1].v]
                     b == heap[trace[t][i].args[2].v]
                 IN (k # 0 /\ trace[t][k].e = "return") =>
                        heap[trace[t][k].val.v] = Coordinate(a.x + b.x, a.y + b.y))

\* a wrapped call with three = (-100,-100) as first argument has returned:
\* the target received a clamped copy, and three is still (-100,-100)
C11_Witness ==
    /\ Returned("main")
    /\ CalledChecked("main", "add_checked")
    /\ CallArgs("main")[1] = Ref(one)
    /\ heap[one] = Coordinate(0 - 100, 0 - 100)
    /\ \E i \in ActivationsOf(trace["main"], "add_checked") :
           /\ trace["main"][i].args[1] # Ref(one)
           /\ heap[trace["main"][i].args[1].v] = Coordinate(0, 0)

----------------------------------------------------------------------------
(* C12 *)

\* the function at the bottom of a chain of wrappers
RECURSIVE BaseTarget(_, _)
BaseTarget(h, val) ==
    IF IsFunction(h, val) /\ h[val.v].k = "closure" THEN BaseTarget(h, h[val.v].func)
    ELSE val

\* the value add, or foo1, computes from a list of integer arguments
Expected(target, args) ==
    IF target = Ref(Addr("add")) THEN IntV(args[1].v + args[2].v)
    ELSE IF Len(args) = 2 THEN IntV(args[1].v * args[2].v)
    ELSE args[1]

\* C12: whatever another thread is doing with the same wrapper, a thread's
\* invocation hands its own arguments to the target, keeps its own steps in
\* the order pre, target, post, and a call that returns has returned what
\* the target computes from that call's own arguments.
C12_IndependentInvocations ==
    \A t \in AllThreads :
        /\ \A j \in DOMAIN trace[t] : trace[t][j].th = t
        /\ \A i \in Activations(trace[t], ThreadDecorators) :
            LET tr == trace[t]
                dec == heap[tr[i].self].name
                pre == Prints(tr, i, PreMsg(dec))
                post == Prints(tr, i, PostMsg(dec))
                ent == ChildEnters(tr, i)
                ret == ChildExits(tr, i, "return")
                x == ExitOf(tr, i)
            IN /\ \A k \in ent : /\ tr[k].args = tr[i].args
                                 /\ tr[k].kwargs = tr[i].kwargs
                                 /\ \E p \in pre : p < k
               /\ \A q \in post : \E k \in ent, r \in ret : k < r /\ r < q
               /\ (x # 0 /\ tr[x].e = "return") =>
                      /\ \E p \in pre, k \in ent, r \in ret : p < k /\ k < r /\ r < x
                      /\ dec = "my_decorator" => \E r \in ret, q \in post : r < q /\ q < x
        /\ Returned(t) =>
               Top(stack[t]).ret = Expected(BaseTarget(heap, Callee(t)), CallArgs(t))
        /\ (Failed(t) /\ stack[t][1].pc = "print") =>
               BaseTarget(heap, Callee(t)) = Ref(Addr("add")) /\ Len(CallArgs(t)) # 2

\* both threads are inside the same wrapper around add: main's target has
\* returned 8 for (5, 3) while the worker, called with (3, 3), has printed
\* and is about to call the target
C12_Witness ==
    /\ At("main", "my_decorator", "post")
    /\ At("worker", "my_decorator", "call")
    /\ Top(stack["main"]).self = Top(stack["worker"]).self
    /\ Captured("main") = Ref(Addr("add"))
    /\ Top(stack["main"]).args = <<IntV(5), IntV(3)>>
    /\ Top(stack["worker"]).args = <<IntV(3), IntV(3)>>
    /\ Top(stack["main"]).ret = IntV(8)

----------------------------------------------------------------------------
(* C13 *)

\* the statements of a wrapper that come before the target has been called
BeforeCall == {"pre", "call", "clampA", "clampB"}

\* the frame at depth d of t's stack is a wrapper's, it is on top, and its
\* call of the target is over: the target returned, or the wrapper is failing
TargetDone(t, d) ==
    /\ Len(stack[t]) = d
    /\ stack[t][d].code \in Decorators
    /\ stack[t][d].pc \notin BeforeCall \/ stack[t][d].exc # ""

\* C13: a wrapper calls its target at most once per invocation, and returns
\* only after that call has returned; a wrapper whose target's call is
\* over, by a return or by a failure, ends its own invocation.
C13_Synchronous ==
    /\ [](\A t \in AllThreads : \A i \in Activations(trace[t], Decorators) :
            LET tr == trace[t]
                ent == ChildEnters(tr, i)
                x == ExitOf(tr, i)
            IN /\ Cardinality(ent) <= 1
               /\ \A k \in ent : x # 0 =>
                      \E r \in (k + 1)..(x - 1) : tr[r].d = tr[k].d /\ IsExit(tr[r])
               /\ (x # 0 /\ tr[x].e = "return") =>
                      \E k \in ent : \E r \in (k + 1)..(x - 1) :
                          tr[r].d = tr[k].d /\ tr[r].e = "return")
    /\ \A t \in AllThreads : \A d \in 2..(MaxDepth + 1) :
           TargetDone(t, d) ~> (Len(stack[t]) < d)

\* my_decorator's wrapper around add: the target has returned and the
\* wrapper, about to print its second message, has not
C13_Witness ==
    /\ At("main", "my_decorator", "post")
    /\ Captured("main") = Ref(Addr("add"))
    /\ TargetDone("main", 2)
    /\ Len(trace["main"]) = 4
    /\ trace["main"][4].e = "return"
    /\ trace["main"][4].d = 3
    /\ ExitOf(trace["main"], 1) = 0

----------------------------------------------------------------------------
(* C14 *)

\* n is twice an integer
IsTwice(n) == \E k \in (0 - MaxInt - 1)..(MaxInt + 1) : n = 2 * k

\* C14: is_even(n) of labs/ex1.py and is_even(n) of lance/ex1.py both
\* return True when the integer n is twice an integer and False when it is
\* not, for positive n, for 0 and for negative n; so the two agree.
C14_IsEven ==
    \A t \in AllThreads :
        (Returned(t) /\ Callee(t) \in {Ref(Addr("is_even_labs")), Ref(Addr("is_even_lance"))}
             /\ Len(CallArgs(t)) = 1 /\ IsInt(CallArgs(t)[1]))
        => Printed(t) = BoolV(IsTwice(CallArgs(t)[1].v))

\* lance's is_even(-3) has returned False
C14_Witness ==
    /\ Returned("main")
    /\ Callee("main") = Ref(Addr("is_even_lance"))
    /\ CallArgs("main") = <<IntV(0 - 3)>>
    /\ Printed("main") = BoolV(FALSE)

----------------------------------------------------------------------------
(* C15 *)

\* the items of seq that are twice an integer, in the order of seq
Evens(seq) == SelectSeq(seq, LAMBDA val : IsTwice(val.v))

\* C15: list(filter(lambda x: x % 2 == 0, nums)) is a new list whose items
\* are the even items of nums, each as often as in nums and in the order of
\* nums; nums itself is left as it was.  [3,4,5,6,7,8] gives [4,6,8].
C15_FilterEvens ==
    /\ [][heap'[nums] = heap[nums]]_vars
    /\ [](\A t \in AllThreads :
            (Returned(t) /\ Callee(t) = Ref(Addr("filter"))) =>
                LET ret == Top(stack[t]).ret IN
                /\ IsList(heap, ret)
                /\ ret.v # nums
                /\ heap[ret.v].items = Evens(heap[nums].items)
                /\ heap[nums].items = Ints(<<3, 4, 5, 6, 7, 8>>) =>
                       heap[ret.v].items = Ints(<<4, 6, 8>>))

\* the filtering of [3,4,5,6,7,8] has returned [4,6,8]
C15_Witness ==
    /\ Returned("main")
    /\ heap[nums].items = Ints(<<3, 4, 5, 6, 7, 8>>)
    /\ heap[Top(stack["main"]).ret.v].items = Ints(<<4, 6, 8>>)

----------------------------------------------------------------------------
(* C16 *)

\* C16: an invocation of a wrapper built by outer_decorator prints
\* "before some_func" first, then calls its target, once and with no
\* argument at all; when it returns, it returns the integer the target
\* returned plus 1, hence 2 for a target that returned 1.
C16_BeforeThenPlusOne ==
    \A t \in AllThreads : \A i \in Activations(trace[t], {"outer_decorator"}) :
        LET tr == trace[t]
            pre == Prints(tr, i, "before some_func")
            ent == ChildEnters(tr, i)
            ret == ChildExits(tr, i, "return")
            x == ExitOf(tr, i)
        IN /\ Cardinality(pre) <= 1
           /\ Cardinality(ent) <= 1
           /\ i < Len(tr) => i + 1 \in pre
           /\ \A k \in ent : /\ tr[k].args = <<>>
                             /\ tr[k].kwargs = {}
                             /\ k - 1 \in pre
                             /\ Ref(tr[k].self) = heap[tr[i].self].func
           /\ (x # 0 /\ tr[x].e = "return") =>
                  /\ Cardinality(ret) = 1
                  /\ \A r \in ret : /\ IsInt(tr[r].val)
                                    /\ tr[x].val = IntV(tr[r].val.v + 1)
                                    /\ tr[r].val = IntV(1) => tr[x].val = IntV(2)

\* outer_decorator(outer_decorator(foo_decor))() has returned 3: foo_decor
\* returned 1, the inner wrapper 2
C16_Witness ==
    /\ Returned("main")
    /\ IsFunction(heap, Callee("main"))
    /\ heap[Callee("main").v].k = "closure"
    /\ heap[Callee("main").v].name = "outer_decorator"
    /\ ClosureOver(heap[Callee("main").v].func, "outer_decorator", Ref(Addr("foo_decor")))
    /\ Top(stack["main"]).ret = IntV(3)

----------------------------------------------------------------------------
(* C17 *)

\* what the activations of inner_function in tr printed
InnerPrints(tr) ==
    {j \in DOMAIN tr : tr[j].e = "print" /\ heap[tr[j].self] = DefObj("inner_function")}

\* C17: outer_function() prints 1: whatever inner_function prints is 1.
C17_PrintsOne ==
    \A t \in AllThreads : \A j \in InnerPrints(trace[t]) : trace[t][j].args = <<IntV(1)>>

\* what the code does: x = 2 makes x a local of inner_function, and
\* outer_function() prints 2, once
C17_PrintsTwo ==
    \A t \in AllThreads :
        /\ \A j \in InnerPrints(trace[t]) : trace[t][j].args = <<IntV(2)>>
        /\ (Returned(t) /\ Callee(t) = Ref(Addr("outer_function"))) =>
               /\ Cardinality(InnerPrints(trace[t])) = 1
               /\ Top(stack[t]).ret = NoneV

\* outer_function() has returned and inner_function has printed
C17_Witness ==
    /\ Returned("main")
    /\ Callee("main") = Ref(Addr("outer_function"))
    /\ InnerPrints(trace["main"]) # {}

----------------------------------------------------------------------------
(* C20 *)

\* C20: whatever was defined and called before, and in whatever order, a
\* call of print1 prints 1 and a call of print2 prints 2, once each, and a
\* call of any closure of outer_closure_param prints the x that closure holds.
C20_EachClosureItsOwnX ==
    \A t \in AllThreads :
        /\ \A i \in Activations(trace[t], {"outer_closure_param"}) :
               \A j \in Prints(trace[t], i, "x") :
                   trace[t][j].args = <<heap[trace[t][i].self].func>>
        /\ (Returned(t) /\ globals.print1 # NoneV /\ Callee(t) = globals.print1) =>
               /\ Shape(trace[t]) = << <<"enter", 2, "">>, <<"print", 2, "x">>, <<"return", 2, "">> >>
               /\ trace[t][2].args = <<IntV(1)>>
        /\ (Returned(t) /\ globals.print2 # NoneV /\ Callee(t) = globals.print2) =>
               /\ Shape(trace[t]) = << <<"enter", 2, "">>, <<"print", 2, "x">>, <<"return", 2, "">> >>
               /\ trace[t][2].args = <<IntV(2)>>

\* print1 was defined, then print2, and a call of print1 has printed 1
C20_Witness ==
    /\ Returned("main")
    /\ IsRef(globals.print1) /\ IsRef(globals.print2)
    /\ globals.print1.v < globals.print2.v
    /\ Callee("main") = globals.print1
    /\ trace["main"][2].args = <<IntV(1)>>

----------------------------------------------------------------------------
(* C18 *)

\* the call statement called logger's wrapper around target with args, kwargs
LoggedCall(t, target, args, kwargs) ==
    /\ ClosureOver(Callee(t), "logger", Ref(Addr(target)))
    /\ CallArgs(t) = args
    /\ CallKwargs(t) = kwargs

\* C18: the first thing an invocation of a wrapper built by logger does is
\* print the positional and the named arguments it was called with, no more
\* and no less; it prints nothing else, and returns, right after the target
\* has, what the target returned.  foo1(5, 4) logs (5, 4), {} and returns
\* 20; foo1(1) logs (1,), {} and returns 1; foo2() logs (), {} and returns 2.
C18_LogsWhatWasPassed ==
    \A t \in AllThreads :
        /\ \A i \in Activations(trace[t], {"logger"}) :
            LET tr == trace[t]
                own == {j \in (i + 1)..ExtentEnd(tr, i) : tr[j].e = "print" /\ tr[j].d = tr[i].d}
                x == ExitOf(tr, i)
            IN /\ i < Len(tr) => i + 1 \in own
               /\ \A j \in own : /\ j = i + 1
                                 /\ tr[j].what = "Arguments were"
                                 /\ tr[j].args = tr[i].args
                                 /\ tr[j].kwargs = tr[i].kwargs
               /\ (x # 0 /\ tr[x].e = "return") =>
                      /\ tr[x - 1].e = "return"
                      /\ tr[x - 1].d = tr[i].d + 1
                      /\ tr[x].val = tr[x - 1].val
        /\ (Len(trace[t]) > 1 /\ IsRef(Callee(t))
                /\ heap[Callee(t).v].k = "closure" /\ heap[Callee(t).v].name = "logger")
               => /\ trace[t][2].args = CallArgs(t)
                  /\ trace[t][2].kwargs = CallKwargs(t)
        /\ (Returned(t) /\ LoggedCall(t, "foo1", <<IntV(5), IntV(4)>>, {})) =>
               /\ trace[t][2].args = <<IntV(5), IntV(4)>> /\ trace[t][2].kwargs = {}
               /\ Top(stack[t]).ret = IntV(20)
        /\ (Returned(t) /\ LoggedCall(t, "foo1", <<IntV(1)>>, {})) =>
               /\ trace[t][2].args = <<IntV(1)>> /\ trace[t][2].kwargs = {}
               /\ Top(stack[t]).ret = IntV(1)
        /\ (Returned(t) /\ LoggedCall(t, "foo2", <<>>, {})) =>
               /\ trace[t][2].args = <<>> /\ trace[t][2].kwargs = {}
               /\ Top(stack[t]).ret = IntV(2)

\* the wrapped foo1(1) has logged (1,) and returned 1
C18_Witness ==
    /\ Returned("main")
    /\ LoggedCall("main", "foo1", <<IntV(1)>>, {})
    /\ trace["main"][2].e = "print"
    /\ trace["main"][2].args = <<IntV(1)>>
    /\ Top(stack["main"]).ret = IntV(1)

----------------------------------------------------------------------------
(* C19 *)

\* C19: what a wrapper built by wrapper_bounds hands to its target is two
\* coordinates without a negative component: each is the argument the
\* wrapper received with its negative components replaced by 0, whatever
\* the caller passed.
C19_TargetSeesNoNegative ==
    \A t \in AllThreads : \A i \in Activations(trace[t], {"wrapper_bounds"}) :
        \A k \in ChildEnters(trace[t], i) :
            LET seen == trace[t][k].args
                given == trace[t][i].args
            IN /\ Len(seen) = 2
               /\ trace[t][k].kwargs = {}
               /\ \A n \in 1..2 :
                      /\ IsCoord(heap, seen[n])
                      /\ heap[seen[n].v].x >= 0
                      /\ heap[seen[n].v].y >= 0
                      /\ heap[seen[n].v].x = Max(heap[given[n].v].x, 0)
                      /\ heap[seen[n].v].y = Max(heap[given[n].v].y, 0)

\* sub_checked is about to run inside the wrapper: the caller passed
\* (-100,-100) as second argument and the target has (0,0)
C19_Witness ==
    /\ At("main", "sub_checked", "body")
    /\ Len(stack["main"]) = 3
    /\ heap[CallArgs("main")[2].v] = Coordinate(0 - 100, 0 - 100)
    /\ heap[Top(stack["main"]).b.v] = Coordinate(0, 0)
    /\ heap[CallArgs("main")[1].v].x >= 0
    /\ Top(stack["main"]).a = CallArgs("main")[1]

----------------------------------------------------------------------------
(* C21 *)

\* C21: the global a_string is 'This is a global variable' whatever was
\* called and however often; the a_string that foo_assignment sets to
\* 'test' is its own local, the one its locals() shows, and foo_resolution
\* goes on printing the global's value.
C21_GlobalUnchanged ==
    /\ globals.a_string = StrV("This is a global variable")
    /\ \A t \in AllThreads : \A j \in DOMAIN trace[t] :
           /\ trace[t][j].what = "locals" => trace[t][j].args = <<StrV("test")>>
           /\ trace[t][j].what = "a_string" =>
                  trace[t][j].args = <<StrV("This is a global variable")>>

\* foo_assignment() has returned: it had a_string = 'test' among its locals
C21_Witness ==
    /\ Returned("main")
    /\ Callee("main") = Ref(Addr("foo_assignment"))
    /\ Len(trace["main"]) = 3
    /\ trace["main"][2].args = <<StrV("test")>>
    /\ globals.a_string = StrV("This is a global variable")

----------------------------------------------------------------------------
(* C22 *)

\* thread t's call statement called add_numbers_strict with two arguments
CalledStrict(t) ==
    /\ Len(stack[t]) > 0
    /\ Callee(t) = Ref(Addr("add_numbers_strict"))
    /\ Len(CallArgs(t)) = 2

\* C22: add_numbers_strict(a, b) gets to its return statement only when a
\* and b are both ints, and then returns a + b; when one of them is not an
\* int it raises TypeError from its check.  add_numbers_strict(5, 6) is 11
\* and add_numbers_strict('Hello', 2) raises TypeError.
C22_StrictSum ==
    \A t \in AllThreads : CalledStrict(t) =>
        LET a == CallArgs(t)[1]
            b == CallArgs(t)[2]
            ints == IsInstanceInt(a) /\ IsInstanceInt(b)
        IN /\ At(t, "add_numbers_strict", "return") => ints
           /\ At(t, "add_numbers_strict", "raise") => ~ints
           /\ Returned(t) => ints /\ Top(stack[t]).ret = IntV(a.v + b.v)
           /\ (Failed(t) /\ Top(stack[t]).pc = "print") =>
                  ~ints /\ Top(stack[t]).exc = "TypeError"
           /\ (Len(stack[t]) = 1 /\ Top(stack[t]).pc = "print" /\ ~ints) => Failed(t)
           /\ (Returned(t) /\ a = IntV(5) /\ b = IntV(6)) => Top(stack[t]).ret = IntV(11)
           /\ (a = StrV("Hello") /\ b = IntV(2)) => ~Returned(t)

\* add_numbers_strict('Hello', 2) has raised TypeError to the module
C22_Witness ==
    /\ Failed("main")
    /\ CalledStrict("main")
    /\ CallArgs("main") = <<StrV("Hello"), IntV(2)>>
    /\ Top(stack["main"]).exc = "TypeError"
    /\ trace["main"][Len(trace["main"])].e = "raise"

----------------------------------------------------------------------------
(* C23 *)

\* the events of kind e that load_dataset itself made in tr
LoadEvents(tr, e) == {j \in DOMAIN tr : tr[j].e = e /\ tr[j].d = 2}

\* C23: load_dataset never raises.  It reads once; what it prints after a
\* read that failed is the error message, once, and it then returns None;
\* what it prints after a read that gave a table is the success message,
\* once, and it then returns that table.
C23_NeverRaises ==
    \A t \in AllThreads :
        (Len(stack[t]) > 0 /\ Callee(t) = Ref(Addr("load_dataset"))) =>
            LET tr == trace[t]
                reads == LoadEvents(tr, "read")
                prints == LoadEvents(tr, "print")
            IN /\ \A d \in 1..Len(stack[t]) : stack[t][d].exc = ""
               /\ LoadEvents(tr, "raise") = {}
               /\ Cardinality(reads) <= 1
               /\ Cardinality(prints) <= 1
               /\ \A p \in prints : \E r \in reads :
                      /\ r < p
                      /\ tr[p].what = "Successfully loaded" <=> tr[r].kind = ""
                      /\ tr[p].what = "Error loading" <=> tr[r].kind # ""
               /\ Returned(t) =>
                      /\ Cardinality(reads) = 1 /\ Cardinality(prints) = 1
                      /\ \A r \in reads :
                             /\ tr[r].kind # "" => Top(stack[t]).ret = NoneV
                             /\ tr[r].kind = "" => /\ Top(stack[t]).ret = tr[r].val
                                                   /\ heap[tr[r].val.v].k = "table"

\* reading product.csv failed with ParserError: load_dataset has printed
\* the error message and returned None
C23_Witness ==
    /\ Returned("main")
    /\ Callee("main") = Ref(Addr("load_dataset"))
    /\ CallArgs("main") = <<StrV("product.csv")>>
    /\ \E r \in LoadEvents(trace["main"], "read") : trace["main"][r].kind = "ParserError"
    /\ \E p \in LoadEvents(trace["main"], "print") : trace["main"][p].what = "Error loading"
    /\ Top(stack["main"]).ret = NoneV

====
